---- MODULE Spec2Model ----
(***************************************************************************)
(* A model of the multisearch / redissearch search-client library:         *)
(*   - the schema classes (utils/jsonschema.py, schema.py and the Xapian   *)
(*     backend's Schema), their JSON wire format and the guesser,          *)
(*   - the query tree (queries.py): connect, compose, QueryNot,            *)
(*   - the lazily evaluated Search object,                                 *)
(*   - the set-algebra compiler of redissearch/main.py (walk, cache keys,  *)
(*     command emission, the transactional pipeline),                      *)
(*   - document update and delete of the Redis and of the Xapian backend.  *)
(*                                                                         *)
(* Python values are modelled with their representation where the code    *)
(* can tell the difference: a tuple and a list with the same items are     *)
(* different values (rep), and json.dumps turns every tuple into a list.   *)
(* The attribute JsonSchema calls `types` and the Xapian Schema calls      *)
(* `fieldtypes` is one field, types, of the schema record.                 *)
(***************************************************************************)
EXTENDS Integers, Sequences, FiniteSets, TLC

\* ------------------------------------------------------------------------
\* Bounds of the model
\* ------------------------------------------------------------------------
\* Number of schema operations explored in one behaviour.
MaxSchemaOps == 5
\* Number of combined queries constructed in one behaviour.
MaxNewQueries == 2
\* Number of calls made on one Search object in one behaviour.
MaxSearchCalls == 4
\* Number of calls made on one search client in one behaviour.
MaxClientCalls == 3
\* Calls on a client that is closed and reopened.
MaxFacadeCalls == 4
\* Query trees built one after the other, and the longest list of queries
\* handed to compose or to a constructor.
MaxComposeCalls == 1
MaxOperands == 3
MaxWrites == 3
MaxReads == 2
MaxLazyCalls == 4

\* ------------------------------------------------------------------------
\* Program constants
\* ------------------------------------------------------------------------
SCHEMA_FORMAT_VERSION == 1
SCHEMA_VERSION == 1
TEXT == 0
BLOB == 1
\* The operator codes of Query.
OR == 0
AND == 1
XOR == 2
NOT == 3
MULTWEIGHT == 4
ALL == 5
NONE == 6
TERMS == 7
SIMILAR == 8
AND_MAYBE == 9
\* Query.op of the base class: None.
NoOp == -1

VARIABLES
    schema,     \* the schema object: [cls, types, routes, modified, modifiable, guessers]
    wire,       \* the last text produced by serialise()
    wireSrc,    \* history: the (types, routes) that were serialised into wire
    bound,      \* history: field -> the (type, params) a successful set() was called with
    sres,       \* history: the last schema operation and its outcome
    nodes,      \* the query objects built so far: [op, nsubqs, conn]
    firstconn,  \* history: the first backend each query object was bound to
    qres,       \* history: the last query operation and its outcome
    search,     \* the Search object: [cls, conn, params, results]
    slast,      \* history: the last call on the Search object and what it did
    client,     \* which search client the behaviour drives: "redis" or "xapian"
    rstore,     \* the Redis keyspace
    xdb,        \* the Xapian database
    dlast,      \* history: the last document operation and the view before it
    srch,       \* history: the last search() of the Redis client
    session,    \* the SearchClient facade: what its backend and its db are
    clast,      \* history: the last call on the facade and its outcome
    built,      \* the last query tree built: how, from what, and the result
    reader,     \* a read-only session in get_document: position, snapshot, result
    lazy,       \* a LazyJsonObject: [cls, json, data] and the last call on it
    sess,       \* two Redis sessions in update(): position, document, schema
    steps       \* number of operations performed so far

schemaVars == <<schema, wire, wireSrc, bound, sres>>
queryVars == <<nodes, firstconn, qres>>
searchVars == <<search, slast>>
backendVars == <<client, rstore, xdb, dlast, srch>>
facadeVars == <<session, clast>>
otherVars == <<reader, lazy, sess>>
nonSchemaVars == <<queryVars, searchVars, backendVars, facadeVars, built, otherVars>>
nonQueryVars == <<schemaVars, searchVars, backendVars, facadeVars, built, otherVars>>
nonSearchVars == <<schemaVars, queryVars, backendVars, facadeVars, built, otherVars>>
nonBackendVars == <<wire, wireSrc, bound, sres, queryVars, searchVars, facadeVars,
                    built, otherVars>>
nonFacadeVars == <<wire, wireSrc, bound, sres, queryVars, searchVars,
                   client, rstore, dlast, srch, built, otherVars>>
nonBuiltVars == <<schemaVars, queryVars, searchVars, backendVars, facadeVars,
                 otherVars>>
vars == <<schemaVars, queryVars, searchVars, backendVars, facadeVars, built,
         otherVars, steps>>

\* ------------------------------------------------------------------------
\* Python values
\* ------------------------------------------------------------------------
EmptyMap == [x \in {} |-> ""]

Put(f, k, v) == [x \in DOMAIN f \cup {k} |-> IF x = k THEN v ELSE f[x]]

\* The tuple (type, params) that set() stores and compares against.
PyTuple(type, params) == [rep |-> "tuple", type |-> type, params |-> params]

\* json.dumps writes a tuple as an array, which json.loads reads as a list.
JsonOfBinding(b) == [b EXCEPT !.rep = "list"]

JsonOfRoute(r) ==
    [rep |-> "list",
     items |-> [i \in DOMAIN r.items |-> [r.items[i] EXCEPT !.rep = "list"]]]

JsonOfTypes(types) == [f \in DOMAIN types |-> JsonOfBinding(types[f])]

JsonOfRoutes(routes) == [f \in DOMAIN routes |-> JsonOfRoute(routes[f])]

\* ------------------------------------------------------------------------
\* Schema classes
\* ------------------------------------------------------------------------
SchemaClasses == {"JsonSchema", "XapianSchema", "Schema"}

FieldNames == {"title", "text"}

\* The type tags a caller passes to set(): names for the JSON schemas,
\* the members of alltypes for schema.Schema.
TypeTags(cls) == IF cls = "Schema" THEN {TEXT, BLOB} ELSE {"TEXT", "BLOB"}

ParamChoices == {EmptyMap, [store |-> "False"]}

\* JsonSchema.__init__ / Schema.__init__
NewSchema(cls) ==
    [cls |-> cls,
     types |-> EmptyMap,
     routes |-> EmptyMap,
     modified |-> FALSE,
     modifiable |-> TRUE,
     guessers |-> IF cls = "XapianSchema" THEN <<"DefaultGuesser">> ELSE <<>>]

Ok(s) == [s |-> s, err |-> "none"]
Raise(s, e) == [s |-> s, err |-> e]

\* A check that lets every schema through.
check_nothing(s) == s.cls \in SchemaClasses
\* JsonSchema.check_modifiable; schema.Schema has no such check.
check_modifiable(s) == s.cls = "Schema" \/ s.modifiable

\* JsonSchema.set and schema.Schema.set.
SchemaSet(s, fieldname, type, params) ==
    IF ~check_modifiable(s) THEN Raise(s, "DbReadOnlyError")
    ELSE IF fieldname \in DOMAIN s.types
    THEN IF s.types[fieldname] # PyTuple(type, params)
         THEN Raise(s, "RuntimeError")
         ELSE Ok(s)
    ELSE Ok([s EXCEPT !.types = Put(s.types, fieldname, PyTuple(type, params)),
                      !.modified = TRUE])

\* JsonSchema.get / schema.Schema.get: <<value>>, or <<>> for KeyError.
SchemaGet(s, fieldname) ==
    IF fieldname \in DOMAIN s.types THEN <<s.types[fieldname]>> ELSE <<>>

\* A destination given to set_route: a bare name, or a (name, params) pair.
DestName(name) == [isname |-> TRUE, name |-> name, params |-> EmptyMap]
DestPair(name, params) == [isname |-> FALSE, name |-> name, params |-> params]
RouteItem(name, params) == [rep |-> "tuple", dest |-> name, params |-> params]

\* JsonSchema.set_route: dest_fields is [isstr |-> TRUE, name |-> n] for a
\* bare string, or [isstr |-> FALSE, items |-> <<dest, ...>>] for a sequence.
SchemaSetRoute(s, incoming_field, dest_fields) ==
    IF ~check_modifiable(s) THEN Raise(s, "DbReadOnlyError")
    ELSE IF dest_fields.isstr
    THEN Ok([s EXCEPT !.routes = Put(s.routes, incoming_field,
                [rep |-> "tuple",
                 items |-> <<RouteItem(dest_fields.name, EmptyMap)>>])])
    ELSE Ok([s EXCEPT !.routes = Put(s.routes, incoming_field,
                [rep |-> "tuple",
                 items |-> [i \in DOMAIN dest_fields.items |->
                     RouteItem(dest_fields.items[i].name,
                               dest_fields.items[i].params)]]),
             !.modified = TRUE])

\* JsonSchema.get_route
SchemaGetRoute(s, incoming_field) ==
    IF incoming_field \in DOMAIN s.routes
    THEN s.routes[incoming_field]
    ELSE [rep |-> "tuple", items |-> <<RouteItem(incoming_field, EmptyMap)>>]

\* Schema.prefix_from_fieldname: 'X' + the upper-cased alphanumerics.
prefix_from_fieldname(fieldname) ==
    CASE fieldname = "title" -> "XTITLE"
      [] fieldname = "text" -> "XTEXT"
      [] OTHER -> "X"

\* A DefaultGuesser that binds the field but forgets its route.
DefaultGuesserNoRoute(s, fieldname) ==
    LET r2 == SchemaSet(s, fieldname, "TEXT",
                  [prefix |-> prefix_from_fieldname(fieldname)])
    IN  IF r2.err # "none" \/ "" \in DOMAIN r2.s.types THEN r2
        ELSE SchemaSet(r2.s, "", "TEXT", [prefix |-> "", store |-> "False"])
\* DefaultGuesser.__call__: a route to the catch-all field "" and to the
\* field itself, a TEXT binding for each.
DefaultGuesser(s, fieldname) ==
    LET r1 == SchemaSetRoute(s, fieldname,
                  [isstr |-> FALSE,
                   items |-> <<DestName(""), DestName(fieldname)>>])
        r2 == SchemaSet(r1.s, fieldname, "TEXT",
                  [prefix |-> prefix_from_fieldname(fieldname)])
        r3 == IF "" \notin DOMAIN r2.s.types
              THEN SchemaSet(r2.s, "", "TEXT", [prefix |-> "", store |-> "False"])
              ELSE r2
    IN  IF r1.err # "none" THEN r1
        ELSE IF r2.err # "none" THEN r2
        ELSE r3

\* schema.Schema.make_guess: always TEXT with no parameters.
make_guess(fieldname) == <<TEXT, EmptyMap>>

\* The guesser chain of the Xapian schema: its base class method is not in
\* the source tree; a bound or routed field is left alone, otherwise the
\* guessers run in order and the first that claims the field wins.
RECURSIVE RunGuessers(_, _, _)
RunGuessers(s, fieldname, i) ==
    IF i > Len(s.guessers) THEN Raise(s, "SchemaError")
    ELSE IF s.guessers[i] = "DefaultGuesser" THEN DefaultGuesser(s, fieldname)
    ELSE RunGuessers(s, fieldname, i + 1)

\* The guess of the JSON schemas, inherited by the Xapian schema.
JsonSchemaGuess(s, fieldname) ==
    IF fieldname \in DOMAIN s.types \/ fieldname \in DOMAIN s.routes THEN Ok(s)
    ELSE RunGuessers(s, fieldname, 1)

\* Schema.guess (schema.py): a known field is left alone, an unknown one is
\* set to what make_guess returns.  The JSON schemas have their own guess.
SchemaGuess(s, fieldname) ==
    IF s.cls # "Schema" THEN JsonSchemaGuess(s, fieldname)
    ELSE IF fieldname \in DOMAIN s.types THEN Ok(s)
    ELSE SchemaSet(s, fieldname, make_guess(fieldname)[1], make_guess(fieldname)[2])

\* serialise(): the JSON text, as the value json.loads would read back.
\* JsonSchema writes the key "version"; the Xapian schema "format_version"
\* and its guessers; schema.Schema dumps a tuple of pairs, a JSON array.
SchemaSerialise(s) ==
    [form |-> IF s.cls = "Schema" THEN "array" ELSE "object",
     keys |-> CASE s.cls = "JsonSchema" -> {"version", "fieldtypes", "routes"}
                [] s.cls = "XapianSchema" ->
                       {"format_version", "fieldtypes", "routes", "guessers"}
                [] OTHER -> {},
     version |-> IF s.cls = "Schema" THEN SCHEMA_VERSION ELSE SCHEMA_FORMAT_VERSION,
     fieldtypes |-> JsonOfTypes(s.types),
     routes |-> IF s.cls = "Schema" THEN EmptyMap ELSE JsonOfRoutes(s.routes),
     guessers |-> s.guessers]

NoWire == [form |-> "none", keys |-> {}, version |-> 0,
           fieldtypes |-> EmptyMap, routes |-> EmptyMap, guessers |-> <<>>]

\* unserialise(value), called on the object s (a static or class method
\* for the JSON schemas: the result replaces s; in place for schema.Schema).
SchemaUnserialise(s, value) ==
    IF s.cls = "Schema"
    THEN IF value.form # "object" THEN Raise(s, "TypeError")
         ELSE IF "version" \notin value.keys THEN Raise(s, "KeyError")
         ELSE IF value.version # SCHEMA_VERSION THEN Raise(s, "RuntimeError")
         ELSE Ok([s EXCEPT !.types = value.fieldtypes, !.modified = FALSE])
    ELSE IF value.form = "none" THEN Ok(NewSchema(s.cls))
    ELSE IF value.form # "object" THEN Raise(s, "TypeError")
    ELSE IF "format_version" \notin value.keys THEN Raise(s, "KeyError")
    ELSE IF value.version # SCHEMA_FORMAT_VERSION
         THEN Raise(s, IF s.cls = "JsonSchema" THEN "RuntimeError"
                       ELSE "SearchClientError")
    ELSE Ok([NewSchema(s.cls) EXCEPT
                !.types = value.fieldtypes,
                !.routes = value.routes,
                !.guessers = IF s.cls = "XapianSchema" THEN value.guessers ELSE <<>>,
                !.modified = FALSE])

\* ------------------------------------------------------------------------
\* Query objects (multisearch/queries.py)
\* ------------------------------------------------------------------------
Backends == {"b1", "b2"}

\* A connect that rebinds a query whatever it was bound to.
QueryConnectRebinds(q, conn) == [q |-> [q EXCEPT !.conn = conn], err |-> "none"]

\* Query.connect: binds an unbound query; a query bound to another
\* connection raises (the message's % formatting raises TypeError before
\* the ValueError is built).
QueryConnect(q, conn) ==
    IF q.conn = "None" THEN [q |-> [q EXCEPT !.conn = conn], err |-> "none"]
    ELSE IF q.conn # conn THEN [q |-> q, err |-> "TypeError"]
    ELSE [q |-> q, err |-> "none"]

\* QueryCombination.__init__: the loop over the subqueries from the i-th,
\* connecting the new query to the connection of each connected subquery.
RECURSIVE ConnectToSubqs(_, _, _)
ConnectToSubqs(q, conns, i) ==
    IF i > Len(conns) THEN [q |-> q, err |-> "none"]
    ELSE IF conns[i] = "None" THEN ConnectToSubqs(q, conns, i + 1)
    ELSE LET r == QueryConnect(q, conns[i]) IN
         IF r.err # "none" THEN r ELSE ConnectToSubqs(r.q, conns, i + 1)

QueryCombination(op, subqs, conns) ==
    ConnectToSubqs([op |-> op, nsubqs |-> Len(subqs), conn |-> "None"], conns, 1)

Tail2(seq) == SubSeq(seq, 2, Len(seq))

\* QueryNot.__init__ and the other QueryCombination constructors, on the
\* object store ns: [ns, err], the new query being the last of ns.  A NOT of
\* more than two subqueries first builds the QueryOr of all but the first.
NewQuery(ns, op, subqs) ==
    LET conns == [i \in DOMAIN subqs |-> ns[subqs[i]].conn] IN
    IF op = NOT /\ Len(subqs) > 2
    THEN LET inner == QueryCombination(OR, Tail2(subqs), Tail2(conns))
             outer == QueryCombination(NOT, <<subqs[1], Len(ns) + 1>>,
                                       <<conns[1], inner.q.conn>>)
         IN  IF inner.err # "none" THEN [ns |-> ns, err |-> inner.err]
             ELSE IF outer.err # "none" THEN [ns |-> ns, err |-> outer.err]
             ELSE [ns |-> ns \o <<inner.q, outer.q>>, err |-> "none"]
    ELSE LET r == QueryCombination(op, subqs, conns) IN
         IF r.err # "none" THEN [ns |-> ns, err |-> r.err]
         ELSE [ns |-> Append(ns, r.q), err |-> "none"]

NoQRes == [op |-> "none", arg |-> "None", before |-> "None",
           outcome |-> "none", kidconns |-> {}]

IdleQuery ==
    /\ nodes = <<>>
    /\ firstconn = <<>>
    /\ qres = NoQRes

\* ------------------------------------------------------------------------
\* Query trees (redissearch/queries.py) as values
\* ------------------------------------------------------------------------
\* A string built by concatenation is the sequence of its pieces, so a term
\* "text:x" is <<"text", ":", "x">>.  sha() of a string is the string in
\* brackets: SHA-1 is taken to be free of collisions.
RECURSIVE Join(_)
Join(strs) == IF strs = <<>> THEN <<>> ELSE Head(strs) \o Join(Tail(strs))

sha(value) == <<"sha1(">> \o value \o <<")">>

\* QueryTerms.__init__: default_op None means Query.AND.
QueryTerms(terms, default_op) ==
    [op |-> TERMS, terms |-> terms,
     default_op |-> IF default_op = NoOp THEN AND ELSE default_op,
     subqs |-> <<>>]

\* A query without terms: Query() itself (op None), QueryAll, QueryNone,
\* and the QueryCombination subclasses QueryOr, QueryAnd, QueryXor.
QueryNode(op, subqs) ==
    [op |-> op, terms |-> <<>>, default_op |-> NoOp, subqs |-> subqs]

\* QueryNot.__init__: more than two subqueries become (first, OR of the rest).
QueryNot(subqs) ==
    IF Len(subqs) > 2
    THEN QueryNode(NOT, <<subqs[1], QueryNode(OR, Tail2(subqs))>>)
    ELSE QueryNode(NOT, subqs)

\* Query.compose
compose(op, queries) ==
    IF Len(queries) = 0 THEN QueryNode(NoOp, <<>>)
    ELSE IF Len(queries) = 1 THEN queries[1]
    ELSE IF op = NOT THEN QueryNot(queries)
    ELSE QueryNode(op, queries)

\* isinstance(query, queries.QueryCombination)
IsCombination(q) == q.op \in {OR, AND, XOR, NOT}

\* The op argument of compose: a constant of Query, or a name.
OpConst(code) == [isname |-> FALSE, code |-> code, name |-> ""]
OpName(name) == [isname |-> TRUE, code |-> NoOp, name |-> name]

\* The dict at the end of compose: the operator of the class op selects,
\* NoOp where op is not a key.
ComposeClass(op) ==
    IF op.isname
    THEN CASE op.name = "OR" -> OR
           [] op.name = "AND" -> AND
           [] op.name = "XOR" -> XOR
           [] op.name \in {"NOT", "ANDNOT"} -> NOT
           [] OTHER -> NoOp
    ELSE IF op.code \in {OR, AND, XOR, NOT} THEN op.code ELSE NoOp

\* Query.compose(op, queries) for any op: [err, q].  The dict is only
\* consulted for two queries or more.
ComposeCall(op, queries) ==
    IF Len(queries) >= 2 /\ ComposeClass(op) = NoOp
    THEN [err |-> "KeyError", q |-> QueryNode(NoOp, <<>>)]
    ELSE [err |-> "none", q |-> compose(ComposeClass(op), queries)]

\* __and__, __or__, __xor__, __sub__ and and_maybe: the class of op over
\* (self, other).
BinaryOp(op, self, other) ==
    IF op = NOT THEN QueryNot(<<self, other>>)
    ELSE QueryNode(op, <<self, other>>)

\* ------------------------------------------------------------------------
\* BaseSearchClient.compile of the Xapian client
\* ------------------------------------------------------------------------
\* _opmap of xapian_backend/client.py
InOpmap(op) == op \in {OR, AND, XOR, NOT}

\* The first error among the outcomes of the subqueries, in order.
RECURSIVE FirstErr(_)
FirstErr(errs) ==
    IF errs = <<>> THEN "none"
    ELSE IF Head(errs) # "none" THEN Head(errs)
    ELSE FirstErr(Tail(errs))

\* compile(query): "none" when a xapian.Query is returned, or the error
\* raised.  The subqueries of a combination are compiled first; the body of
\* the QuerySimilar branch is the undefined name FIXME.
RECURSIVE XapianCompile(_)
XapianCompile(q) ==
    IF q.op \in {OR, AND, XOR, NOT, AND_MAYBE}
    THEN IF FirstErr([i \in DOMAIN q.subqs |-> XapianCompile(q.subqs[i])]) # "none"
         THEN FirstErr([i \in DOMAIN q.subqs |-> XapianCompile(q.subqs[i])])
         ELSE IF InOpmap(q.op) THEN "none" ELSE "UnknownQueryTypeError"
    ELSE IF q.op = MULTWEIGHT THEN XapianCompile(q.subqs[1])
    ELSE IF q.op \in {ALL, NONE, TERMS} THEN "none"
    ELSE IF q.op = SIMILAR THEN "NameError"
    ELSE "UnknownQueryTypeError"

\* ------------------------------------------------------------------------
\* The set-algebra compiler of RedisSearch.search
\* ------------------------------------------------------------------------
\* str(query.op) + ':'
OpTag(op) ==
    CASE op = OR -> "0:"
      [] op = AND -> "1:"
      [] OTHER -> "3:"

\* An emitted command (cmd, dest, inputs); cmd is 'score' or an operator.
ScoreCmd(dest, inputs) ==
    [score |-> TRUE, op |-> NoOp, dest |-> dest, inputs |-> inputs]
OpCmd(op, dest, inputs) ==
    [score |-> FALSE, op |-> op, dest |-> dest, inputs |-> inputs]

\* pieces.setdefault(depth, [])
Subpieces(pieces, depth) ==
    IF depth \in DOMAIN pieces THEN pieces[depth] ELSE <<>>

\* The body of the loop over walk(): what one yielded (depth, query) adds to
\* pieces and cmds.  UnimplementedError is not defined anywhere, so raising
\* it is a NameError.
Emit(depth, query, pieces, cmds) ==
    LET subpieces == Subpieces(pieces, depth) IN
    IF query.op = TERMS
    THEN LET cachekeys == [i \in DOMAIN query.terms |-> sha(query.terms[i])]
             scores == [i \in DOMAIN query.terms |->
                          ScoreCmd(cachekeys[i],
                                   <<(<<"docs:">> \o query.terms[i])>>)]
         IN  IF Len(query.terms) = 0
             THEN [err |-> "NameError", pieces |-> pieces, cmds |-> cmds]
             ELSE IF Len(query.terms) = 1
             THEN [err |-> "none",
                   pieces |-> Put(pieces, depth, Append(subpieces, cachekeys[1])),
                   cmds |-> cmds \o scores]
             ELSE LET cachekey == sha(Join(cachekeys)) IN
                  [err |-> "none",
                   pieces |-> Put(pieces, depth, Append(subpieces, cachekey)),
                   cmds |-> cmds \o scores \o
                            <<OpCmd(query.default_op, cachekey, cachekeys)>>]
    ELSE IF query.op \in {OR, AND, NOT}
    THEN IF depth + 1 \notin DOMAIN pieces
         THEN [err |-> "KeyError", pieces |-> pieces, cmds |-> cmds]
         ELSE LET cachekeys == pieces[depth + 1]
                  cachekey == sha(<<OpTag(query.op)>> \o Join(cachekeys))
                  kept == [d \in (DOMAIN pieces \cup {depth}) \ {depth + 1} |->
                              IF d = depth THEN Append(subpieces, cachekey)
                              ELSE pieces[d]]
              IN  [err |-> "none", pieces |-> kept,
                   cmds |-> Append(cmds, OpCmd(query.op, cachekey, cachekeys))]
    ELSE [err |-> "NameError", pieces |-> pieces, cmds |-> cmds]

\* walk(query) driving the loop.  A stack entry is [query, index]; index is
\* <<i>> for the root and <<>> (None) for every pushed subquery.  For a
\* combination Python 2 finds None < len(subqs) true and then fails on
\* None + 1.
RECURSIVE Walk(_, _, _)
Walk(stack, pieces, cmds) ==
    IF stack = <<>> THEN [err |-> "none", cmds |-> cmds]
    ELSE LET top == stack[Len(stack)]
             rest == SubSeq(stack, 1, Len(stack) - 1)
         IN  IF IsCombination(top.query) /\ top.index = <<>>
             THEN [err |-> "TypeError", cmds |-> cmds]
             ELSE IF IsCombination(top.query)
                     /\ top.index[1] < Len(top.query.subqs)
             THEN Walk(rest \o
                       <<[top EXCEPT !.index = <<top.index[1] + 1>>],
                         [query |-> top.query.subqs[top.index[1] + 1],
                          index |-> <<>>]>>,
                       pieces, cmds)
             ELSE LET e == Emit(Len(stack) - 1, top.query, pieces, cmds) IN
                  IF e.err # "none" THEN [err |-> e.err, cmds |-> e.cmds]
                  ELSE Walk(rest, e.pieces, e.cmds)

\* The commands emitted for a query tree, or the error raised on the way.
Compile(query) == Walk(<<[query |-> query, index |-> <<0>>]>>, EmptyMap, <<>>)

\* ------------------------------------------------------------------------
\* The Redis keyspace and the commands the client sends
\* ------------------------------------------------------------------------
\* sets: key -> non-empty set (Redis keeps no empty set); strs: key -> value.
\* The database prefix, common to every key, is left out of the keys.
EmptyStore == [sets |-> EmptyMap, strs |-> EmptyMap, nextid |-> 0]

Without(f, k) == [x \in DOMAIN f \ {k} |-> f[x]]

smembers(store, key) ==
    IF key \in DOMAIN store.sets THEN store.sets[key] ELSE {}

StoreSet(store, key, members) ==
    [store EXCEPT !.sets = IF members = {} THEN Without(store.sets, key)
                           ELSE Put(store.sets, key, members)]

RECURSIVE Inter(_, _)
Inter(store, keys) ==
    IF Len(keys) = 1 THEN smembers(store, keys[1])
    ELSE smembers(store, keys[1]) \cap Inter(store, Tail(keys))

Union(store, keys) == UNION {smembers(store, keys[i]) : i \in DOMAIN keys}

\* One queued command [c, key, args] applied by the server.
ExecCmd(store, cmd) ==
    CASE cmd.c = "set" ->
           [store EXCEPT !.strs = Put(store.strs, cmd.key, cmd.args[1])]
      [] cmd.c = "delete" ->
           [store EXCEPT !.strs = Without(store.strs, cmd.key),
                         !.sets = Without(store.sets, cmd.key)]
      [] cmd.c = "sadd" ->
           StoreSet(store, cmd.key, smembers(store, cmd.key) \cup {cmd.args[1]})
      [] cmd.c = "srem" ->
           StoreSet(store, cmd.key, smembers(store, cmd.key) \ {cmd.args[1]})
      [] cmd.c = "sinterstore" -> StoreSet(store, cmd.key, Inter(store, cmd.args))
      [] cmd.c = "sunionstore" -> StoreSet(store, cmd.key, Union(store, cmd.args))
      [] cmd.c = "sdiffstore" ->
           StoreSet(store, cmd.key,
                    smembers(store, cmd.args[1]) \ Union(store, Tail(cmd.args)))
      [] OTHER -> store

\* pipe.execute() of a transactional pipeline: MULTI, the queued commands in
\* order, EXEC.  There is one reply per command; the reply of a command
\* other than smembers is never used and is recorded as {}.
RECURSIVE ExecPipe(_, _, _)
ExecPipe(store, pipe, replies) ==
    IF pipe = <<>> THEN [store |-> store, replies |-> replies]
    ELSE ExecPipe(ExecCmd(store, Head(pipe)), Tail(pipe),
                  Append(replies,
                         IF Head(pipe).c = "smembers"
                         THEN smembers(store, Head(pipe).key) ELSE {}))

Cmd(c, key, args) == [c |-> c, key |-> key, args |-> args]

\* cachekey(key) local to search(): the key of a cached set in the store.
cachekey(key) == <<"cache:">> \o key

\* The store command queued for one emitted command.
StoreCmd(cmd) ==
    IF cmd.score THEN Cmd("sinterstore", cachekey(cmd.dest), cmd.inputs)
    ELSE Cmd(CASE cmd.op = OR -> "sunionstore"
               [] cmd.op = AND -> "sinterstore"
               [] OTHER -> "sdiffstore",
             cachekey(cmd.dest),
             [i \in DOMAIN cmd.inputs |-> cachekey(cmd.inputs[i])])

\* A pipeline without the deletes.
PipelineKeepsCache(cmds) ==
    [i \in DOMAIN cmds |-> StoreCmd(cmds[i])] \o
    <<Cmd("smembers", cachekey(cmds[Len(cmds)].dest), <<>>)>>

\* The pipeline search() queues for a non-empty list of emitted commands:
\* the stores, the read of the last destination, a delete per store.
Pipeline(cmds) ==
    [i \in DOMAIN cmds |-> StoreCmd(cmds[i])] \o
    <<Cmd("smembers", cachekey(cmds[Len(cmds)].dest), <<>>)>> \o
    [i \in DOMAIN cmds |-> Cmd("delete", cachekey(cmds[i].dest), <<>>)]

\* RedisSearch.search(search) for search.query = query.
RedisSearch(store, query) ==
    LET w == Compile(query)
        run == ExecPipe(store, Pipeline(w.cmds), <<>>)
        resnum == Len(w.cmds)
    IN  IF w.err # "none"
        THEN [err |-> w.err, cmds |-> w.cmds, pipe |-> <<>>, executes |-> 0,
              result |-> {}, store |-> store]
        ELSE IF w.cmds = <<>>
        THEN [err |-> "none", cmds |-> w.cmds, pipe |-> <<>>, executes |-> 0,
              result |-> {}, store |-> store]
        ELSE [err |-> "none", cmds |-> w.cmds, pipe |-> Pipeline(w.cmds),
              executes |-> 1, result |-> run.replies[resnum + 1], store |-> run.store]

\* ------------------------------------------------------------------------
\* Documents in the Redis store (RedisSearch.add / update / delete)
\* ------------------------------------------------------------------------
\* A document is a function from field names to values; a value is the
\* sequence of the words value.split() gives.
FieldSeq(doc) == SelectSeq(<<"text", "title">>, LAMBDA f : f \in DOMAIN doc)

\* Schema.indexer(fieldname)(value): TextIndexer yields fieldname:word for
\* each word, BlobIndexer one term for the whole value.
Indexer(s, fieldname, value) ==
    IF s.types[fieldname].type = TEXT
    THEN [i \in DOMAIN value |-> <<fieldname, ":", value[i]>>]
    ELSE <<(<<fieldname, ":">> \o value)>>

\* hex(n)[2:]
HexOf(n) ==
    CASE n = 10 -> "a" [] n = 11 -> "b" [] n = 12 -> "c" [] n = 13 -> "d"
      [] n = 14 -> "e" [] n = 15 -> "f"
      [] OTHER -> ToString(n)

RECURSIVE SeqOf(_)
SeqOf(S) ==
    IF S = {} THEN <<>>
    ELSE LET x == CHOOSE y \in S : TRUE IN <<x>> \o SeqOf(S \ {x})

\* wrapper.add_term for each of the terms: two sadd commands per term.
AddTerms(docid, terms) ==
    [i \in 1..(2 * Len(terms)) |->
        IF i % 2 = 1
        THEN Cmd("sadd", <<"docs:">> \o terms[(i + 1) \div 2], <<docid>>)
        ELSE Cmd("sadd", <<"terms:", docid>>, <<terms[i \div 2]>>)]

\* The loop of _store_doc over the fields: [s, pipe], the schema after the
\* guesses and the commands queued.  StoreField is one round, for the first
\* of the fields and the schema g that guess() left.
RECURSIVE StoreFields(_, _, _, _, _)
StoreField(g, docid, doc, fields, pipe) ==
    StoreFields(g, docid, doc, Tail(fields),
                pipe \o AddTerms(docid, Indexer(g, Head(fields), doc[Head(fields)])))

StoreFields(s, docid, doc, fields, pipe) ==
    IF fields = <<>> THEN [s |-> s, pipe |-> pipe]
    ELSE StoreField(SchemaGuess(s, Head(fields)).s, docid, doc, fields, pipe)

\* The end of _store_doc for the schema and pipeline r the loop left: a
\* modified schema is queued and marked clean, the pipeline is executed.
StoreExecute(r, store, docid) ==
    [s |-> [r.s EXCEPT !.modified = FALSE],
     store |-> ExecPipe(store,
                        IF r.s.modified
                        THEN Append(r.pipe, Cmd("set", <<"schema">>,
                                                <<SchemaSerialise(r.s)>>))
                        ELSE r.pipe,
                        <<>>).store,
     docid |-> docid]

\* RedisSearch._store_doc: [s, store, docid], docid being wrapper.docid.
StoreDoc(s, store, docid, doc) ==
    StoreExecute(StoreFields(s, docid, doc, FieldSeq(doc),
                             <<Cmd("set", <<"data:", docid>>, <<doc>>),
                               Cmd("sadd", <<"docs">>, <<docid>>)>>),
                 store, docid)

\* The pipeline delete() queues for the terms that get_terms() read.
DeletePipeline(docid, terms) ==
    <<Cmd("delete", <<"data:", docid>>, <<>>),
      Cmd("srem", <<"docs">>, <<docid>>)>> \o
    [i \in DOMAIN terms |-> Cmd("srem", <<"docs:">> \o terms[i], <<docid>>)] \o
    <<Cmd("delete", <<"terms:", docid>>, <<>>)>>

\* RedisSearch.delete: the terms are read when the pipeline is built.
RedisDelete(store, docid) ==
    ExecPipe(store,
             DeletePipeline(docid, SeqOf(smembers(store, <<"terms:", docid>>))),
             <<>>).store

\* RedisSearch.update: delete, then store again under the same id.
RedisUpdate(s, store, docid, doc) ==
    StoreDoc(s, RedisDelete(store, docid), docid, doc)

\* RedisSearch.add: [s, store, docid].
RedisAdd(s, store, doc) ==
    StoreDoc(s, [store EXCEPT !.nextid = store.nextid + 1],
             HexOf(store.nextid + 1), doc)

\* The loop of full_reset: delete(docid) for each id of iter_docids().
RECURSIVE DeleteEach(_, _)
DeleteEach(store, docids) ==
    IF docids = <<>> THEN store
    ELSE DeleteEach(RedisDelete(store, Head(docids)), Tail(docids))

\* RedisSearch.full_reset: every document is deleted, then the keys
\* 'schema', 'docs' and 'nextid'.  self.schema is not touched.
RedisFullReset(store) ==
    LET emptied == DeleteEach(store, SeqOf(smembers(store, <<"docs">>))) IN
    [emptied EXCEPT !.strs = Without(emptied.strs, <<"schema">>),
                    !.sets = Without(emptied.sets, <<"docs">>),
                    !.nextid = 0]

\* document_count, get_data and the posting lists that hold docid.
RedisView(store, docid) ==
    [count |-> Cardinality(smembers(store, <<"docs">>)),
     data |-> IF <<"data:", docid>> \in DOMAIN store.strs
              THEN <<store.strs[<<"data:", docid>>]>> ELSE <<>>,
     postings |-> {k \in DOMAIN store.sets :
                     k[1] = "docs:" /\ docid \in store.sets[k]},
     terms |-> smembers(store, <<"terms:", docid>>)]

\* ------------------------------------------------------------------------
\* Documents in the Xapian database (WritableSearchClient)
\* ------------------------------------------------------------------------
\* The database: docs maps Xapian's own document numbers to [terms, data].
EmptyDb == [docs |-> EmptyMap, lastdocid |-> 0, metadata |-> NoWire]

idprefix == "Q"

\* get_docid_term: idprefix + str(docid); str(None) is "None".
get_docid_term(docid) == <<idprefix, docid>>

\* xapian.Database.term_exists
term_exists(db, term) == \E n \in DOMAIN db.docs : term \in db.docs[n].terms

\* A replace that adds the document whether or not the term is in use.
ReplaceAlwaysAdds(db, term, xdoc) ==
    [db EXCEPT !.docs = Put(db.docs, db.lastdocid + 1, xdoc),
               !.lastdocid = db.lastdocid + 1]

\* xapian.WritableDatabase.replace_document(unique_term, document): the
\* first document indexed by the term is replaced and any other one is
\* deleted; without such a document the new one is added.
replace_document(db, term, xdoc) ==
    LET holders == {n \in DOMAIN db.docs : term \in db.docs[n].terms}
        first == CHOOSE n \in holders : \A m \in holders : n <= m
    IN  IF holders = {}
        THEN [db EXCEPT !.docs = Put(db.docs, db.lastdocid + 1, xdoc),
                        !.lastdocid = db.lastdocid + 1]
        ELSE [db EXCEPT !.docs = [n \in (DOMAIN db.docs \ holders) \cup {first} |->
                                    IF n = first THEN xdoc ELSE db.docs[n]]]

\* xapian.WritableDatabase.delete_document(unique_term)
delete_document(db, term) ==
    [db EXCEPT !.docs = [n \in {m \in DOMAIN db.docs : term \notin db.docs[m].terms} |->
                            db.docs[n]]]

\* XapianTextIndexer: store and prefix from the field's parameters, one
\* term prefix + word per word.
IndexerStores(params) == "store" \notin DOMAIN params \/ params.store = "True"
IndexerPrefix(params) == IF "prefix" \in DOMAIN params THEN params.prefix ELSE ""

\* The loop of process() over the destinations of one field's route from the
\* i-th: [err, terms, stored].
RECURSIVE IndexRoute(_, _, _, _, _)
IndexRoute(s, route, value, terms, stored) ==
    IF route = <<>> THEN [err |-> "none", terms |-> terms, stored |-> stored]
    ELSE LET dest == Head(route).dest IN
         IF dest \notin DOMAIN s.types
         THEN [err |-> "KeyError", terms |-> terms, stored |-> stored]
         ELSE LET params == s.types[dest].params IN
              IndexRoute(s, Tail(route), value,
                  terms \cup {<<IndexerPrefix(params), value[i]>> : i \in DOMAIN value},
                  IF IndexerStores(params)
                  THEN Put(stored, dest,
                           (IF dest \in DOMAIN stored THEN stored[dest] ELSE <<>>)
                           \o <<value>>)
                  ELSE stored)

\* WritableSearchClient.process: [s, err, xdoc], the loop over the fields.
\* ProcessField is one round, for the first of the fields and the outcome g
\* of guess(); ProcessRoute goes on from the outcome r of its route.
RECURSIVE process(_, _, _, _)
ProcessRoute(s, r, doc, fields, xdoc) ==
    IF r.err # "none" THEN [s |-> s, err |-> r.err, xdoc |-> xdoc]
    ELSE process(s, doc, Tail(fields), [terms |-> r.terms, data |-> r.stored])

ProcessField(g, doc, fields, xdoc) ==
    IF g.err # "none" THEN [s |-> g.s, err |-> g.err, xdoc |-> xdoc]
    ELSE ProcessRoute(g.s,
                      IndexRoute(g.s, SchemaGetRoute(g.s, Head(fields)).items,
                                 doc[Head(fields)], xdoc.terms, xdoc.data),
                      doc, fields, xdoc)

process(s, doc, fields, xdoc) ==
    IF fields = <<>> THEN [s |-> s, err |-> "none", xdoc |-> xdoc]
    ELSE ProcessField(SchemaGuess(s, Head(fields)), doc, fields, xdoc)

\* utils.make_docid: the function has no return statement.
make_docid == "None"

\* The end of update() for the outcome p of process(): the id term is added
\* to the document, which replaces the one the term indexes.
ReplaceProcessed(p, db, docidterm) ==
    IF p.err # "none" THEN [s |-> p.s, db |-> db, err |-> p.err]
    ELSE [s |-> p.s,
          db |-> replace_document(db, docidterm,
                                  [p.xdoc EXCEPT !.terms = @ \cup {docidterm}]),
          err |-> "none"]

\* WritableSearchClient.update(doc, docid, fail_if_exists): [s, db, err].
\* docid is "None" when the caller gives none; the loop that draws a fresh
\* id then never ends if the id term of "None" exists ("hang").
XapianUpdate(s, db, doc, docid, fail_if_exists) ==
    LET id == IF docid = "None" THEN make_docid ELSE docid
        docidterm == get_docid_term(id)
    IN  IF docid = "None" /\ term_exists(db, docidterm)
        THEN [s |-> s, db |-> db, err |-> "hang"]
        ELSE IF docid # "None" /\ fail_if_exists /\ ~term_exists(db, docidterm)
        THEN [s |-> s, db |-> db, err |-> "DocExistsError"]
        ELSE ReplaceProcessed(process(s, doc, FieldSeq(doc),
                                      [terms |-> {}, data |-> EmptyMap]),
                              db, docidterm)

\* WritableSearchClient.delete(docid, fail_if_missing): [db, err].
XapianDelete(db, docid, fail_if_missing) ==
    IF fail_if_missing /\ ~term_exists(db, get_docid_term(docid))
    THEN [db |-> db, err |-> "DocNotFoundError"]
    ELSE [db |-> delete_document(db, get_docid_term(docid)), err |-> "none"]

\* A commit that never writes the schema.
XapianCommitDropsSchema(s, db) ==
    [s |-> [s EXCEPT !.modified = FALSE], db |-> db]

\* WritableSearchClient.commit: [s, db].
XapianCommit(s, db) ==
    IF s.modified
    THEN [s |-> [s EXCEPT !.modified = FALSE],
          db |-> [db EXCEPT !.metadata = SchemaSerialise(s)]]
    ELSE [s |-> s, db |-> db]

\* document_count, get_document(docid).data and the posting lists (terms)
\* that hold the document.
XapianView(db, docid) ==
    LET holders == {n \in DOMAIN db.docs : get_docid_term(docid) \in db.docs[n].terms}
        first == CHOOSE n \in holders : \A m \in holders : n <= m
    IN  [count |-> Cardinality(DOMAIN db.docs),
         data |-> IF holders = {} THEN <<>> ELSE <<db.docs[first].data>>,
         postings |-> IF holders = {} THEN {} ELSE db.docs[first].terms]

\* ------------------------------------------------------------------------
\* Closing a client (multisearch/client.py, closed_backend.py, closed.py)
\* ------------------------------------------------------------------------
\* ClosedBackend: close() does nothing.  Any other attribute is raiseerror, a
\* function of no arguments: a call with arguments is a TypeError, and its
\* body names `errors`, which closed_backend.py never imports (NameError).
ClosedBackendCall(name, nargs) ==
    IF name = "close" THEN "none"
    ELSE IF nargs > 0 THEN "TypeError"
    ELSE "NameError"

\* ClosedObject, which replaces the db of a closed Xapian client: the same,
\* in a module that imports errors.
ClosedObjectCall(name, nargs) ==
    IF name = "close" THEN "none"
    ELSE IF nargs > 0 THEN "TypeError"
    ELSE "DbClosedError"

\* The number of arguments SearchClient.<name> hands to self.backend.<name>.
FacadeArgs(name) ==
    CASE name = "update" -> 3
      [] name = "delete" -> 2
      [] name = "search" -> 1
      [] OTHER -> 0

\* The outcome of update() once process() has returned p, err being what the
\* write to the db raises.
AfterProcess(p, db, err) ==
    [s |-> p.s, db |-> db, err |-> IF p.err # "none" THEN p.err ELSE err]

\* A method of the Xapian client whose db is a ClosedObject: [s, db, err].
\* Each method fails at its first use of self.db; update() runs process(),
\* and with it guess(), before it gets there.
ClosedXapianCall(name, s, db, doc, docid, fail) ==
    CASE name = "update" ->
           IF docid = "None" \/ fail
           THEN [s |-> s, db |-> db, err |-> ClosedObjectCall("term_exists", 1)]
           ELSE AfterProcess(process(s, doc, FieldSeq(doc),
                                     [terms |-> {}, data |-> EmptyMap]),
                             db, ClosedObjectCall("replace_document", 2))
      [] name = "delete" ->
           [s |-> s, db |-> db,
            err |-> IF fail THEN ClosedObjectCall("term_exists", 1)
                    ELSE ClosedObjectCall("delete_document", 1)]
      [] name = "commit" ->
           [s |-> s, db |-> db,
            err |-> IF s.modified THEN ClosedObjectCall("set_metadata", 2)
                    ELSE ClosedObjectCall("commit", 0)]
      [] name = "document_count" ->
           [s |-> s, db |-> db, err |-> ClosedObjectCall("get_doccount", 0)]
      [] name = "iter_documents" ->
           [s |-> s, db |-> db, err |-> ClosedObjectCall("postlist", 1)]
      [] OTHER ->
           [s |-> s, db |-> db, err |-> "TypeError"]

\* The same methods on an open client.  What a search or a count returns is
\* not part of this state.
OpenXapianCall(name, s, db, doc, docid, fail) ==
    CASE name = "update" -> XapianUpdate(s, db, doc, docid, fail)
      [] name = "delete" ->
           [s |-> s, db |-> XapianDelete(db, docid, fail).db,
            err |-> XapianDelete(db, docid, fail).err]
      [] name = "commit" ->
           [s |-> XapianCommit(s, db).s, db |-> XapianCommit(s, db).db,
            err |-> "none"]
      [] OTHER -> [s |-> s, db |-> db, err |-> "none"]

\* A call of a method other than close on the client: through the facade
\* SearchClient, whose backend is the Xapian client or a ClosedBackend, or on
\* the Xapian client itself.
ClientCall(ses, name, s, db, doc, docid, fail) ==
    IF ses.kind = "facade" /\ ses.backend = "ClosedBackend"
    THEN [s |-> s, db |-> db, err |-> ClosedBackendCall(name, FacadeArgs(name))]
    ELSE IF ses.db = "ClosedObject"
    THEN ClosedXapianCall(name, s, db, doc, docid, fail)
    ELSE OpenXapianCall(name, s, db, doc, docid, fail)

\* BaseSearchClient.close: an open db is committed and closed; the db
\* becomes a ClosedObject.  SearchClient.close then swaps the backend.
ClientClose(ses, s, db) ==
    [s |-> IF ses.db = "Database" THEN XapianCommit(s, db).s ELSE s,
     db |-> IF ses.db = "Database" THEN XapianCommit(s, db).db ELSE db,
     ses |-> [ses EXCEPT !.db = "ClosedObject",
                         !.backend = IF ses.kind = "facade" THEN "ClosedBackend"
                                     ELSE @],
     err |-> IF ses.kind = "facade" /\ ses.backend = "ClosedBackend"
             THEN ClosedBackendCall("close", 0)
             ELSE IF ses.db = "ClosedObject" THEN ClosedObjectCall("close", 0)
             ELSE "none"]

\* WritableSearchClient.__init__ on the same database: the schema is read
\* back from the metadata.
ClientOpen(ses, db) ==
    [s |-> SchemaUnserialise(NewSchema("XapianSchema"), db.metadata).s,
     err |-> SchemaUnserialise(NewSchema("XapianSchema"), db.metadata).err,
     ses |-> [ses EXCEPT !.db = "Database", !.backend = "XapianBackend",
                         !.opened = @ + 1]]

\* ------------------------------------------------------------------------
\* The Search object
\* ------------------------------------------------------------------------
SearchClasses == {"multisearch", "redissearch"}

Max(a, b) == IF a > b THEN a ELSE b

\* Search.__init__.  multisearch clamps start_rank at 0 and keeps the
\* parameters in a dict without the key order_by; redissearch keeps
\* start_rank and end_rank as given.  An absent value is <<>>.
NewSearch(cls, conn, start_rank, end_rank) ==
    [cls |-> cls,
     conn |-> conn,
     params |-> [start_rank |-> IF cls = "multisearch"
                                THEN Max(start_rank, 0) ELSE start_rank,
                 end_rank |-> end_rank,
                 order_by |-> <<>>],
     results |-> <<>>]

\* A start_rank that changes the parameter and keeps the held results.
SearchStartRankKeepsResults(s, start_rank) ==
    [s EXCEPT !.params.start_rank = Max(start_rank, 0)]

\* Search.start_rank
SearchStartRank(s, start_rank) ==
    [s EXCEPT !.params.start_rank = Max(start_rank, 0), !.results = <<>>]

\* Search.end_rank
SearchEndRank(s, end_rank) ==
    [s EXCEPT !.params.end_rank = end_rank, !.results = <<>>]

\* Search.order_by
SearchOrderBy(s, criteria) ==
    [s EXCEPT !.params.order_by = <<criteria>>, !.results = <<>>]

\* Search.execute: [s, err, invoked, sent].  backend is what conn.search
\* does with the call: it returns a result object ("ok") or raises.  The
\* result object remembers the parameters it was computed from.
SearchExecute(s, backend) ==
    IF s.conn = "None"
    THEN [s |-> s, invoked |-> FALSE, sent |-> <<>>,
          err |-> IF s.cls = "multisearch" THEN "SearchClientError"
                  ELSE "RuntimeError"]
    ELSE IF backend = "ok"
    THEN [s |-> [s EXCEPT !.results = <<[params |-> s.params]>>],
          invoked |-> TRUE, sent |-> <<s.params>>, err |-> "none"]
    ELSE [s |-> s, invoked |-> TRUE, sent |-> <<s.params>>, err |-> backend]

\* The property Search.results and Search.__len__ / Search.__iter__:
\* execute only if no results are held.
SearchRead(s, backend) ==
    IF s.results = <<>> THEN SearchExecute(s, backend)
    ELSE [s |-> s, invoked |-> FALSE, sent |-> <<>>, err |-> "none"]

NoSLast == [op |-> "init", hadResults |-> FALSE, invoked |-> FALSE,
            sent |-> <<>>, outcome |-> "none"]

IdleSearch ==
    /\ search = NewSearch("multisearch", "None", 0, 10)
    /\ slast = NoSLast

NoDLast == [op |-> "none", docid |-> "None", doc |-> EmptyMap, fail |-> FALSE,
            outcome |-> "none", existed |-> FALSE, repeat |-> FALSE,
            before |-> <<>>]

NoSrch == [op |-> "none", query |-> QueryNode(NoOp, <<>>), outcome |-> "none",
           cmds |-> <<>>, pipe |-> <<>>, executes |-> 0, result |-> {}]

IdleBackend ==
    /\ client = "none"
    /\ rstore = EmptyStore
    /\ xdb = EmptyDb
    /\ dlast = NoDLast
    /\ srch = NoSrch

\* The facade before any call: an open client on the database.
OpenSession ==
    [kind |-> "facade", backend |-> "XapianBackend", db |-> "Database",
     opened |-> 1]

NoCLast == [op |-> "none", outcome |-> "none", wasClosed |-> FALSE,
            reached |-> FALSE, atclose |-> <<>>]

IdleFacade ==
    /\ session = OpenSession
    /\ clast = NoCLast

\* No tree built yet.
NoBuilt == [how |-> "none", op |-> OpName(""),
            operands |-> <<>>, err |-> "none",
            q |-> QueryNode(NoOp, <<>>)]

IdleBuilt == built = NoBuilt

\* A read-only session that has opened the empty database and reads nothing.
NoReader ==
    [pc |-> "idle", docid |-> "None", snap |-> EmptyMap, disk |-> EmptyMap,
     behind |-> 0, plitem |-> <<>>, outcome |-> "none", data |-> <<>>,
     retries |-> 0, calls |-> 0]

\* LazyJsonObject(): no JSON text, no items.  The class is the one of
\* multisearch/utils.py ("utils") or of multisearch/utils/lazyjson.py.
NoLazy ==
    [cls |-> "utils", json |-> <<>>, data |-> <<EmptyMap>>, op |-> "none",
     outcome |-> "none"]

\* Two sessions, each a RedisSearch client of its own, that call nothing.
NoSess ==
    [p \in {"A", "B"} |->
        [pc |-> "idle", doc |-> EmptyMap, schema |-> NewSchema("Schema"),
         terms |-> {}, dirty |-> FALSE, outcome |-> "none"]]

IdleOther ==
    /\ reader = NoReader
    /\ lazy = NoLazy
    /\ sess = NoSess

\* ------------------------------------------------------------------------
\* Schema operations as actions
\* ------------------------------------------------------------------------
SchemaState(s) == <<s.types, s.routes, s.modified>>

SRes(op, f, arg, r, before) ==
    [op |-> op, f |-> f, arg |-> arg, outcome |-> r.err,
     changed |-> SchemaState(r.s) # SchemaState(before),
     wasBound |-> f \in DOMAIN bound,
     value |-> <<>>]

Set(fieldname, type, params) ==
    LET r == SchemaSet(schema, fieldname, type, params) IN
    /\ steps < MaxSchemaOps
    /\ schema' = r.s
    /\ sres' = SRes("set", fieldname, <<PyTuple(type, params)>>, r, schema)
    /\ bound' = IF r.err = "none" /\ fieldname \notin DOMAIN bound
                THEN Put(bound, fieldname, PyTuple(type, params))
                ELSE bound
    /\ steps' = steps + 1
    /\ UNCHANGED <<wire, wireSrc, nonSchemaVars>>

Get(fieldname) ==
    /\ steps < MaxSchemaOps
    /\ sres' = [SRes("get", fieldname, <<>>, Ok(schema), schema) EXCEPT
                   !.outcome = IF SchemaGet(schema, fieldname) = <<>>
                               THEN "KeyError" ELSE "none",
                   !.value = SchemaGet(schema, fieldname)]
    /\ steps' = steps + 1
    /\ UNCHANGED <<schema, wire, wireSrc, bound, nonSchemaVars>>

SetRoute(incoming_field, dest_fields) ==
    LET r == SchemaSetRoute(schema, incoming_field, dest_fields) IN
    /\ steps < MaxSchemaOps
    /\ schema.cls # "Schema"
    /\ schema' = r.s
    /\ sres' = SRes("set_route", incoming_field, <<>>, r, schema)
    /\ steps' = steps + 1
    /\ UNCHANGED <<wire, wireSrc, bound, nonSchemaVars>>

Guess(fieldname) ==
    LET r == SchemaGuess(schema, fieldname) IN
    /\ steps < MaxSchemaOps
    /\ schema.cls # "JsonSchema"
    /\ schema' = r.s
    /\ sres' = SRes("guess", fieldname, <<>>, r, schema)
    /\ steps' = steps + 1
    /\ UNCHANGED <<wire, wireSrc, bound, nonSchemaVars>>

\* clear_guessers(), as Schema.unserialise calls it before it appends the
\* guessers of the wire: the chain is left empty.
ClearGuessers ==
    /\ steps < MaxSchemaOps
    /\ schema.cls = "XapianSchema"
    /\ schema.guessers # <<>>
    /\ schema.modifiable
    /\ schema' = [schema EXCEPT !.guessers = <<>>]
    /\ sres' = SRes("clear_guessers", "", <<>>, Ok(schema), schema)
    /\ steps' = steps + 1
    /\ UNCHANGED <<wire, wireSrc, bound, nonSchemaVars>>

Serialise ==
    /\ steps < MaxSchemaOps
    /\ wire' = SchemaSerialise(schema)
    /\ wireSrc' = <<schema.types, schema.routes>>
    /\ sres' = SRes("serialise", "", <<>>, Ok(schema), schema)
    /\ steps' = steps + 1
    /\ UNCHANGED <<schema, bound, nonSchemaVars>>

\* The schema is loaded from its own latest serialisation, as a client
\* that reopens a committed database does.
Unserialise ==
    LET r == SchemaUnserialise(schema, wire) IN
    /\ steps < MaxSchemaOps
    /\ wire.form # "none"
    /\ wireSrc = <<schema.types, schema.routes>>
    /\ schema' = r.s
    /\ sres' = SRes("unserialise", "", <<>>, r, schema)
    /\ steps' = steps + 1
    /\ UNCHANGED <<wire, wireSrc, bound, nonSchemaVars>>

\* ReadonlySearchClient.__init__: the schema is read from the metadata of
\* the database (the latest serialisation, or nothing in a new database)
\* and marked not modifiable.
ReadonlyOpen ==
    LET r == SchemaUnserialise(schema, wire) IN
    /\ steps < MaxSchemaOps
    /\ schema.cls = "XapianSchema"
    /\ schema.modifiable
    /\ wire.form = "none" \/ wireSrc = <<schema.types, schema.routes>>
    /\ schema' = IF r.err = "none" THEN [r.s EXCEPT !.modifiable = FALSE]
                  ELSE schema
    /\ sres' = SRes("open_readonly", "", <<>>, r, schema)
    /\ steps' = steps + 1
    /\ UNCHANGED <<wire, wireSrc, bound, nonSchemaVars>>

RouteChoices ==
    {[isstr |-> TRUE, name |-> "text", items |-> <<>>],
     [isstr |-> FALSE, name |-> "", items |-> <<DestName("text")>>],
     [isstr |-> FALSE, name |-> "",
      items |-> <<DestPair("text", [store |-> "False"])>>]}

NoSRes == [op |-> "none", f |-> "", arg |-> <<>>, outcome |-> "none",
           changed |-> FALSE, wasBound |-> FALSE, value |-> <<>>]

\* The variables of a part of the library that a specification leaves alone.
IdleSchema ==
    /\ wire = NoWire
    /\ wireSrc = <<EmptyMap, EmptyMap>>
    /\ bound = EmptyMap
    /\ sres = NoSRes

InitSchema ==
    /\ schema \in {NewSchema(cls) : cls \in SchemaClasses}
    /\ IdleSchema
    /\ IdleBuilt
    /\ IdleQuery
    /\ IdleSearch
    /\ IdleBackend
    /\ IdleFacade
    /\ IdleOther
    /\ steps = 0

NextSchema ==
    \/ \E f \in FieldNames, t \in TypeTags(schema.cls), p \in ParamChoices : Set(f, t, p)
    \/ \E f \in FieldNames : Get(f)
    \/ \E d \in RouteChoices : SetRoute("title", d)
    \/ \E f \in FieldNames : Guess(f)
    \/ ClearGuessers
    \/ ReadonlyOpen
    \/ Serialise
    \/ Unserialise

SpecSchema == InitSchema /\ [][NextSchema]_vars

\* ------------------------------------------------------------------------
\* Query operations as actions
\* ------------------------------------------------------------------------
\* The first connection of every query object, given the objects after a step.
FirstConn(ns) ==
    [i \in DOMAIN ns |->
        IF i \in DOMAIN firstconn /\ firstconn[i] # "None"
        THEN firstconn[i] ELSE ns[i].conn]

\* QueryTerms(terms, conn=conn)
Terms(conn) == [op |-> TERMS, nsubqs |-> 0, conn |-> conn]

\* query.connect(conn)
Connect(n, conn) ==
    LET r == QueryConnect(nodes[n], conn) IN
    /\ nodes' = [nodes EXCEPT ![n] = r.q]
    /\ firstconn' = FirstConn(nodes')
    /\ qres' = [NoQRes EXCEPT !.op = "connect", !.arg = conn,
                              !.before = nodes[n].conn, !.outcome = r.err]
    /\ UNCHANGED <<nonQueryVars, steps>>

\* QueryOr(subqs), QueryAnd(subqs), QueryXor(subqs), QueryAndMaybe(subqs),
\* QueryNot(subqs)
NewCombination(op, subqs) ==
    LET r == NewQuery(nodes, op, subqs) IN
    /\ steps < MaxNewQueries
    /\ nodes' = r.ns
    /\ firstconn' = FirstConn(nodes')
    /\ qres' = [NoQRes EXCEPT !.op = "combine", !.outcome = r.err,
                   !.kidconns = {nodes[subqs[i]].conn : i \in DOMAIN subqs} \ {"None"}]
    /\ steps' = steps + 1
    /\ UNCHANGED nonQueryVars

\* The constructors differ only in the op they set, except QueryNot.
CombinationOps == {AND, NOT}

SubqChoices(op, n) ==
    {s \in (1..n) \X (1..n) : s[1] < s[2]} \cup
    (IF op = NOT
     THEN {s \in (1..n) \X (1..n) \X (1..n) : s[1] < s[2] /\ s[2] < s[3]}
     ELSE {})

\* Two leaf queries, each made by QueryTerms with or without a connection.
InitQuery ==
    /\ nodes \in {[i \in 1..2 |-> Terms(c[i])] : c \in [1..2 -> Backends \cup {"None"}]}
    /\ firstconn = [i \in 1..2 |-> nodes[i].conn]
    /\ qres = NoQRes
    /\ schema = NewSchema("JsonSchema")
    /\ IdleSchema
    /\ IdleBuilt
    /\ IdleSearch
    /\ IdleBackend
    /\ IdleFacade
    /\ IdleOther
    /\ steps = 0

NextQuery ==
    \/ \E n \in DOMAIN nodes, c \in Backends : Connect(n, c)
    \/ \E op \in CombinationOps : \E k \in SubqChoices(op, Len(nodes)) :
          NewCombination(op, k)

SpecQuery == InitQuery /\ [][NextQuery]_vars

\* ------------------------------------------------------------------------
\* Calls on a Search object as actions
\* ------------------------------------------------------------------------
SLast(op, r) ==
    [op |-> op, hadResults |-> search.results # <<>>, invoked |-> r.invoked,
     sent |-> r.sent, outcome |-> r.err]

Mutated(op, s) ==
    /\ steps < MaxSearchCalls
    /\ search.cls = "multisearch"
    /\ search' = s
    /\ slast' = SLast(op, [invoked |-> FALSE, sent |-> <<>>, err |-> "none"])
    /\ steps' = steps + 1
    /\ UNCHANGED nonSearchVars

StartRank(start_rank) == Mutated("start_rank", SearchStartRank(search, start_rank))

EndRank(end_rank) == Mutated("end_rank", SearchEndRank(search, end_rank))

OrderBy(criteria) == Mutated("order_by", SearchOrderBy(search, criteria))

\* search.results, len(search), iter(search)
Read(op, backend) ==
    LET r == SearchRead(search, backend) IN
    /\ steps < MaxSearchCalls
    /\ op = "results" => search.cls = "multisearch"
    /\ search' = r.s
    /\ slast' = SLast(op, r)
    /\ steps' = steps + 1
    /\ UNCHANGED nonSearchVars

\* search.execute()
Execute(backend) ==
    LET r == SearchExecute(search, backend) IN
    /\ steps < MaxSearchCalls
    /\ search' = r.s
    /\ slast' = SLast("execute", r)
    /\ steps' = steps + 1
    /\ UNCHANGED nonSearchVars

ReadOps == {"results", "len", "iter"}

\* What the backend's search does when called: return results or raise.
BackendOutcomes == {"ok", "SearchClientError"}

InitSearchObj ==
    /\ search \in {NewSearch(cls, conn, sr, 10) :
                      cls \in SearchClasses, conn \in {"None", "b1"},
                      sr \in {-1, 0}}
    /\ slast = NoSLast
    /\ schema = NewSchema("JsonSchema")
    /\ IdleSchema
    /\ IdleBuilt
    /\ IdleQuery
    /\ IdleBackend
    /\ IdleFacade
    /\ IdleOther
    /\ steps = 0

NextSearchObj ==
    \/ \E sr \in {-1, 0, 2} : StartRank(sr)
    \/ \E er \in {5, 10} : EndRank(er)
    \/ \E c \in {"+date", "-"} : OrderBy(c)
    \/ \E op \in ReadOps, b \in BackendOutcomes : Read(op, b)
    \/ \E b \in BackendOutcomes : Execute(b)

SpecSearchObj == InitSearchObj /\ [][NextSearchObj]_vars

\* ------------------------------------------------------------------------
\* Calls on a search client as actions
\* ------------------------------------------------------------------------
DLast(op, docid, doc, fail, outcome, existed, before) ==
    [op |-> op, docid |-> docid, doc |-> doc, fail |-> fail,
     outcome |-> outcome, existed |-> existed,
     repeat |-> /\ op = "update" /\ docid # "None"
                /\ dlast.op = "update" /\ dlast.outcome = "none"
                /\ dlast.docid = docid /\ dlast.doc = doc,
     before |-> <<before>>]

\* docid = client.add(doc)
RAdd(doc) ==
    /\ client = "redis" /\ steps < MaxClientCalls
    /\ \E r \in {RedisAdd(schema, rstore, doc)} :
           /\ schema' = r.s
           /\ rstore' = r.store
           /\ dlast' = DLast("add", r.docid, doc, FALSE, "none",
                             r.docid \in smembers(rstore, <<"docs">>),
                             RedisView(rstore, r.docid))
           /\ srch' = NoSrch
           /\ steps' = steps + 1
           /\ UNCHANGED <<client, xdb, nonBackendVars>>

\* client.update(docid, doc)
RUpdate(docid, doc) ==
    /\ client = "redis" /\ steps < MaxClientCalls
    /\ \E r \in {RedisUpdate(schema, rstore, docid, doc)} :
           /\ schema' = r.s
           /\ rstore' = r.store
           /\ dlast' = DLast("update", docid, doc, FALSE, "none",
                             docid \in smembers(rstore, <<"docs">>),
                             RedisView(rstore, docid))
           /\ srch' = NoSrch
           /\ steps' = steps + 1
           /\ UNCHANGED <<client, xdb, nonBackendVars>>

\* client.delete(docid)
RDelete(docid) ==
    /\ client = "redis" /\ steps < MaxClientCalls
    /\ rstore' = RedisDelete(rstore, docid)
    /\ dlast' = DLast("delete", docid, EmptyMap, FALSE, "none",
                      docid \in smembers(rstore, <<"docs">>),
                      RedisView(rstore, docid))
    /\ srch' = NoSrch
    /\ steps' = steps + 1
    /\ UNCHANGED <<client, schema, xdb, nonBackendVars>>

\* client.full_reset()
RFullReset ==
    /\ client = "redis" /\ steps < MaxClientCalls
    /\ rstore' = RedisFullReset(rstore)
    /\ dlast' = DLast("full_reset", "None", EmptyMap, FALSE, "none", FALSE,
                      RedisView(rstore, "None"))
    /\ srch' = NoSrch
    /\ steps' = steps + 1
    /\ UNCHANGED <<client, schema, xdb, nonBackendVars>>

\* client.search(search) with search.query = query.  One search is explored
\* between two document operations.
RSearch(query) ==
    /\ client = "redis" /\ steps < MaxClientCalls
    /\ \E r \in {RedisSearch(rstore, query)} :
           /\ srch.op = "none"
           /\ rstore' = r.store
           /\ srch' = [op |-> "search", query |-> query, outcome |-> r.err,
                       cmds |-> r.cmds, pipe |-> r.pipe, executes |-> r.executes,
                       result |-> r.result]
           /\ dlast' = NoDLast
           /\ steps' = steps + 1
           /\ UNCHANGED <<client, schema, xdb, nonBackendVars>>

\* client.update(doc, docid=docid, fail_if_exists=fail_if_exists)
XUpdate(doc, docid, fail_if_exists) ==
    /\ client = "xapian" /\ steps < MaxClientCalls
    /\ \E r \in {XapianUpdate(schema, xdb, doc, docid, fail_if_exists)} :
           /\ schema' = r.s
           /\ xdb' = r.db
           /\ dlast' = DLast("update", docid, doc, fail_if_exists, r.err,
                             term_exists(xdb, get_docid_term(docid)),
                             XapianView(xdb, docid))
           /\ steps' = steps + 1
           /\ UNCHANGED <<client, rstore, srch, nonBackendVars>>

\* client.delete(docid, fail_if_missing=fail_if_missing)
XDelete(docid, fail_if_missing) ==
    /\ client = "xapian" /\ steps < MaxClientCalls
    /\ \E r \in {XapianDelete(xdb, docid, fail_if_missing)} :
           /\ xdb' = r.db
           /\ dlast' = DLast("delete", docid, EmptyMap, fail_if_missing, r.err,
                             term_exists(xdb, get_docid_term(docid)),
                             XapianView(xdb, docid))
           /\ steps' = steps + 1
           /\ UNCHANGED <<client, schema, rstore, srch, nonBackendVars>>

\* client.commit()
XCommit ==
    /\ client = "xapian" /\ steps < MaxClientCalls
    /\ \E r \in {XapianCommit(schema, xdb)} :
           /\ schema' = r.s
           /\ xdb' = r.db
           /\ dlast' = [NoDLast EXCEPT !.op = "commit"]
           /\ steps' = steps + 1
           /\ UNCHANGED <<client, rstore, srch, nonBackendVars>>

Docs == {[text |-> <<"x", "y">>], [text |-> <<"y">>], [title |-> <<"x">>]}

tx == <<"text", ":", "x">>
ty == <<"text", ":", "y">>

\* Queries of one term, and all the leaves searched.
TermLeaves == {QueryTerms(<<t>>, NoOp) : t \in {tx, ty}}
Leaves ==
    {QueryTerms(<<tx>>, NoOp), QueryTerms(<<ty>>, NoOp),
     QueryTerms(<<tx, ty>>, AND), QueryTerms(<<tx, ty>>, OR)}

Flat(a, b, c) == compose(AND, <<a, b, c>>)
Nested(a, b, c) == compose(AND, <<compose(AND, <<a, b>>), c>>)
Twice(a, b) == compose(OR, <<compose(AND, <<a, b>>), compose(AND, <<a, b>>)>>)

Queries ==
    Leaves
    \cup {QueryTerms(<<>>, NoOp), compose(AND, <<>>), QueryNode(ALL, <<>>),
          QueryNode(XOR, <<QueryTerms(<<tx>>, NoOp), QueryTerms(<<ty>>, NoOp)>>)}
    \cup {QueryNode(op, <<a, b>>) : op \in {OR, AND}, a \in Leaves, b \in Leaves}
    \cup {QueryNot(<<a, b>>) : a \in Leaves, b \in Leaves}
    \cup {Flat(a, b, c) : a \in TermLeaves, b \in TermLeaves, c \in TermLeaves}
    \cup {Nested(a, b, c) : a \in TermLeaves, b \in TermLeaves, c \in TermLeaves}
    \cup {QueryNot(<<a, b, c>>) : a \in TermLeaves, b \in TermLeaves, c \in TermLeaves}
    \cup {Twice(a, b) : a \in TermLeaves, b \in TermLeaves}

InitClient ==
    /\ client \in {"redis", "xapian"}
    /\ schema = NewSchema(IF client = "redis" THEN "Schema" ELSE "XapianSchema")
    /\ rstore = EmptyStore
    /\ xdb = EmptyDb
    /\ dlast = NoDLast
    /\ srch = NoSrch
    /\ IdleSchema
    /\ IdleBuilt
    /\ IdleQuery
    /\ IdleSearch
    /\ IdleFacade
    /\ IdleOther
    /\ steps = 0

NextClient ==
    \/ \E d \in Docs : RAdd(d)
    \/ \E d \in Docs : RUpdate("1", d)
    \/ RDelete("1")
    \/ RFullReset
    \/ \E q \in Queries : RSearch(q)
    \/ \E d \in Docs, i \in {"1", "None"}, f \in BOOLEAN : XUpdate(d, i, f)
    \/ \E f \in BOOLEAN : XDelete("1", f)
    \/ XCommit

SpecClient == InitClient /\ [][NextClient]_vars

\* ------------------------------------------------------------------------
\* Building query trees
\* ------------------------------------------------------------------------
\* The lists of queries handed to compose or to a constructor.
OperandLists(pool) ==
    UNION {[1..n -> pool] : n \in 0..MaxOperands}

Built(how, op, operands, err, q) ==
    [how |-> how, op |-> op, operands |-> operands, err |-> err, q |-> q]

\* Query.compose(op, queries)
Compose(op, queries) ==
    /\ steps < MaxComposeCalls
    /\ \E r \in {ComposeCall(op, queries)} :
           built' = Built("compose", op, queries, r.err, r.q)
    /\ steps' = steps + 1
    /\ UNCHANGED nonBuiltVars

\* self & other, self | other, self ^ other, self - other,
\* self.and_maybe(other)
Binary(op, self, other) ==
    /\ steps < MaxComposeCalls
    /\ built' = Built("binary", OpConst(op), <<self, other>>, "none",
                      BinaryOp(op, self, other))
    /\ steps' = steps + 1
    /\ UNCHANGED nonBuiltVars

\* QueryNot(subqs)
NewQueryNot(subqs) ==
    /\ steps < MaxComposeCalls
    /\ built' = Built("QueryNot", OpConst(NOT), subqs, "none", QueryNot(subqs))
    /\ steps' = steps + 1
    /\ UNCHANGED nonBuiltVars

\* The queries trees are built from: two leaves and a combination.
Operands ==
    TermLeaves \cup {QueryNode(OR, <<QueryTerms(<<tx>>, NoOp),
                                     QueryTerms(<<ty>>, NoOp)>>)}

ComposeOps ==
    {OpConst(c) : c \in {OR, AND, XOR, NOT, AND_MAYBE}}
    \cup {OpName(n) : n \in {"OR", "AND", "XOR", "NOT", "ANDNOT"}}

InitCompose ==
    /\ built = NoBuilt
    /\ schema = NewSchema("Schema")
    /\ IdleSchema
    /\ IdleQuery
    /\ IdleSearch
    /\ IdleBackend
    /\ IdleFacade
    /\ IdleOther
    /\ steps = 0

NextCompose ==
    \/ \E op \in ComposeOps, qs \in OperandLists(Operands) : Compose(op, qs)
    \/ \E op \in {AND, OR, XOR, NOT, AND_MAYBE}, a \in Operands, b \in Operands :
          Binary(op, a, b)
    \/ \E qs \in OperandLists(Operands) : NewQueryNot(qs)

SpecCompose == InitCompose /\ [][NextCompose]_vars

\* ------------------------------------------------------------------------
\* The life of a client: calls, close, and a new client on the same database
\* ------------------------------------------------------------------------
CLast(op, outcome, atclose) ==
    [op |-> op, outcome |-> outcome,
     wasClosed |-> session.db = "ClosedObject",
     reached |-> session.db = "Database",
     atclose |-> atclose]

\* A call of the method name, other than close.
Called(name, doc, docid, fail) ==
    /\ steps < MaxFacadeCalls
    /\ \E r \in {ClientCall(session, name, schema, xdb, doc, docid, fail)} :
           /\ schema' = r.s
           /\ xdb' = r.db
           /\ clast' = CLast(name, r.err, clast.atclose)
    /\ steps' = steps + 1
    /\ UNCHANGED <<session, nonFacadeVars>>

\* client.update(doc, docid, fail_if_exists)
ClientUpdate(doc, docid, fail_if_exists) ==
    Called("update", doc, docid, fail_if_exists)

\* client.delete(docid, fail_if_missing)
ClientDelete(docid, fail_if_missing) ==
    Called("delete", EmptyMap, docid, fail_if_missing)

\* client.commit()
ClientCommit == Called("commit", EmptyMap, "None", FALSE)

\* client.search(search)
ClientSearch == Called("search", EmptyMap, "None", FALSE)

\* client.document_count
ClientDocumentCount == Called("document_count", EmptyMap, "None", FALSE)

\* client.iter_documents()
ClientIterDocuments == Called("iter_documents", EmptyMap, "None", FALSE)

\* client.close()
Close ==
    /\ steps < MaxFacadeCalls
    /\ \E r \in {ClientClose(session, schema, xdb)} :
           /\ schema' = r.s
           /\ xdb' = r.db
           /\ session' = r.ses
           /\ clast' = CLast("close", r.err,
                             IF session.db = "Database"
                             THEN <<SchemaSerialise(schema)>>
                             ELSE clast.atclose)
    /\ steps' = steps + 1
    /\ UNCHANGED nonFacadeVars

\* A new client on the database of a closed one (an open writable database
\* is locked).
Open ==
    /\ steps < MaxFacadeCalls
    /\ session.db = "ClosedObject"
    /\ \E r \in {ClientOpen(session, xdb)} :
           /\ schema' = IF r.err = "none" THEN r.s ELSE schema
           /\ session' = IF r.err = "none" THEN r.ses ELSE session
           /\ clast' = CLast("open", r.err, clast.atclose)
    /\ steps' = steps + 1
    /\ UNCHANGED <<xdb, nonFacadeVars>>

FacadeDocs == {[text |-> <<"x">>], [title |-> <<"x">>, text |-> <<"y">>]}

InitFacade ==
    /\ session \in {[OpenSession EXCEPT !.kind = k] : k \in {"facade", "direct"}}
    /\ clast = NoCLast
    /\ schema = NewSchema("XapianSchema")
    /\ IdleBackend
    /\ IdleSchema
    /\ IdleBuilt
    /\ IdleQuery
    /\ IdleSearch
    /\ IdleOther
    /\ steps = 0

NextFacade ==
    \/ \E d \in FacadeDocs, i \in {"1", "2"}, f \in BOOLEAN : ClientUpdate(d, i, f)
    \/ \E f \in BOOLEAN : ClientDelete("1", f)
    \/ ClientCommit
    \/ ClientSearch
    \/ ClientDocumentCount
    \/ ClientIterDocuments
    \/ Close
    \/ Open

SpecFacade == InitFacade /\ [][NextFacade]_vars

\* ------------------------------------------------------------------------
\* Claims about the schema
\* ------------------------------------------------------------------------
SameBinding(a, b) == a.type = b.type /\ a.params = b.params

\* C1: once set(f,T,P) has succeeded, a later set(f,T',P') with a different
\* pair fails with the conflict error and changes nothing, a later set with
\* the identical pair succeeds and changes nothing, and get(f) returns the
\* type and params that were bound.
C1_BindingIsPermanent ==
    /\ (sres.op = "set" /\ sres.wasBound) =>
          /\ ~sres.changed
          /\ IF SameBinding(sres.arg[1], bound[sres.f])
             THEN sres.outcome = "none"
             ELSE sres.outcome = "RuntimeError"
    /\ \A f \in DOMAIN bound :
          /\ SchemaGet(schema, f) # <<>>
          /\ SameBinding(SchemaGet(schema, f)[1], bound[f])

\* C2: unserialise(serialise(S)) succeeds and yields fieldtypes and routes
\* equal to those of S.
C2_RoundTrip ==
    sres.op = "unserialise" =>
        /\ sres.outcome = "none"
        /\ schema.types = wireSrc[1]
        /\ schema.routes = wireSrc[2]

\* ------------------------------------------------------------------------
\* Claims about query objects
\* ------------------------------------------------------------------------
\* C3: a query is bound to at most one backend for its whole life: once it
\* has a connection it keeps that connection, connect() succeeds exactly when
\* the query is unbound or already bound to the same backend, and combining
\* subqueries bound to two different backends raises.
C3_OneBackendForLife ==
    /\ \A n \in DOMAIN nodes :
          firstconn[n] # "None" => nodes[n].conn = firstconn[n]
    /\ qres.op = "connect" =>
          (qres.outcome = "none" <=> qres.before \in {"None", qres.arg})
    /\ (qres.op = "combine" /\ Cardinality(qres.kidconns) > 1) =>
          qres.outcome # "none"

C3_Witness ==
    /\ qres.op = "connect"
    /\ qres.before = "b1"
    /\ qres.arg = "b2"
    /\ qres.outcome = "TypeError"
    /\ \E n \in DOMAIN nodes : nodes[n].op = NOT /\ nodes[n].conn = "b1"

\* C4: the backend search is invoked only by a read of the results
\* (results, len, iter) or by execute(); a read while results are held does
\* not invoke it; a read while none are held invokes it with the current
\* parameters; start_rank, end_rank and order_by discard the held results and
\* invoke nothing, so results that are held were computed from the current
\* parameters.
C4_LazyInvalidatedCache ==
    /\ slast.invoked => slast.op \in ReadOps \cup {"execute"}
    /\ (slast.op \in ReadOps /\ slast.hadResults) =>
          ~slast.invoked /\ slast.outcome = "none"
    /\ (slast.op \in ReadOps /\ ~slast.hadResults /\ search.conn # "None") =>
          slast.invoked /\ slast.sent = <<search.params>>
    /\ slast.op \in {"start_rank", "end_rank", "order_by"} =>
          ~slast.invoked /\ search.results = <<>>
    /\ search.results # <<>> => search.results[1].params = search.params

C4_Witness ==
    /\ slast.op = "len"
    /\ ~slast.hadResults
    /\ slast.invoked
    /\ slast.sent = <<search.params>>
    /\ search.params.start_rank = 2
    /\ search.results # <<>>
    /\ steps = 3

\* ------------------------------------------------------------------------
\* Claims about the set-algebra compiler and the search clients
\* ------------------------------------------------------------------------
\* C5: a compiled tree emits one command per distinct subquery: no two of
\* the emitted commands compute the same destination key.
C5_Dedup ==
    (srch.op = "search" /\ srch.outcome = "none") =>
        \A i, j \in DOMAIN srch.cmds :
            srch.cmds[i].dest = srch.cmds[j].dest => i = j

CacheKeys(store) ==
    {k \in DOMAIN store.sets \cup DOMAIN store.strs : k[1] = "cache:"}

StoreOps == {"sinterstore", "sunionstore", "sdiffstore"}

\* C6: a search that compiles queues one store per emitted command, then
\* exactly one read, of the key of the last (root) command, then a delete of
\* every key a store wrote, and executes that pipeline once; a search that
\* does not compile executes nothing; no state of the store holds a cache key.
C6_AtomicBatch ==
    /\ CacheKeys(rstore) = {}
    /\ (srch.op = "search" /\ srch.outcome = "none") =>
          LET n == Len(srch.cmds)
              pipe == srch.pipe
          IN  /\ n >= 1
              /\ srch.executes = 1
              /\ Len(pipe) = 2 * n + 1
              /\ \A i \in 1..n :
                    /\ pipe[i].c \in StoreOps
                    /\ pipe[i].key = cachekey(srch.cmds[i].dest)
                    /\ \E j \in (n + 2)..(2 * n + 1) :
                          pipe[j].c = "delete" /\ pipe[j].key = pipe[i].key
              /\ pipe[n + 1].c = "smembers"
              /\ pipe[n + 1].key = pipe[n].key
              /\ \A j \in (n + 2)..(2 * n + 1) : pipe[j].c = "delete"
    /\ (srch.op = "search" /\ srch.outcome # "none") =>
          srch.executes = 0 /\ srch.pipe = <<>>

C6_Witness ==
    /\ srch.op = "search"
    /\ srch.outcome = "none"
    /\ Len(srch.cmds) >= 3
    /\ srch.result # {}
    /\ srch.executes = 1

\* C7: for term queries a, b, c and every store, the search of
\* AND[AND[a,b],c] succeeds, the search of AND[a,b,c] succeeds, and both
\* return the same set of document ids.
C7_Associativity ==
    \A a \in TermLeaves, b \in TermLeaves, c \in TermLeaves :
        (srch.op = "search" /\ srch.query = Nested(a, b, c)) =>
            /\ srch.outcome = "none"
            /\ RedisSearch(rstore, Flat(a, b, c)).err = "none"
            /\ srch.result = RedisSearch(rstore, Flat(a, b, c)).result

\* C8: NOT(a,b,c) is the tree NOT(a, OR(b,c)), and its search emits the union
\* of the keys of b and c before the difference, whose inputs are the key of
\* a and then the key of the union.
C8_NotOrder ==
    \A a \in TermLeaves, b \in TermLeaves, c \in TermLeaves :
        (srch.op = "search" /\ srch.query = QueryNot(<<a, b, c>>)) =>
            /\ srch.query = QueryNode(NOT, <<a, QueryNode(OR, <<b, c>>)>>)
            /\ \E i \in DOMAIN srch.cmds, j \in DOMAIN srch.cmds :
                  /\ i < j
                  /\ ~srch.cmds[i].score /\ srch.cmds[i].op = OR
                  /\ srch.cmds[i].inputs = <<sha(b.terms[1]), sha(c.terms[1])>>
                  /\ ~srch.cmds[j].score /\ srch.cmds[j].op = NOT
                  /\ srch.cmds[j].inputs = <<sha(a.terms[1]), srch.cmds[i].dest>>

\* C9: update(doc, docid=X, fail_if_exists=True) raises DocExistsError and
\* leaves the document of X as it was when X exists, and stores the document
\* without raising when X does not exist.
C9_StrictUpdate ==
    (client = "xapian" /\ dlast.op = "update" /\ dlast.fail
     /\ dlast.docid # "None") =>
        IF dlast.existed
        THEN /\ dlast.outcome = "DocExistsError"
             /\ dlast.before = <<XapianView(xdb, dlast.docid)>>
        ELSE /\ dlast.outcome = "none"
             /\ XapianView(xdb, dlast.docid).data # <<>>

\* C10: an update(doc, docid=X) that repeats the call before it succeeds
\* and leaves document_count, the stored data of X and the posting lists
\* holding X as the first call left them, on the Xapian and on the Redis
\* client.
C10_UpdateIdempotent ==
    (dlast.op = "update" /\ dlast.repeat) =>
        /\ dlast.outcome = "none"
        /\ IF client = "redis"
           THEN dlast.before = <<RedisView(rstore, dlast.docid)>>
           ELSE dlast.before = <<XapianView(xdb, dlast.docid)>>

C10_Witness ==
    /\ client = "xapian"
    /\ dlast.op = "update"
    /\ dlast.repeat
    /\ dlast.docid = "1"
    /\ dlast.outcome = "none"
    /\ XapianView(xdb, "1").count = 1
    /\ XapianView(xdb, "1").data # <<>>

\* ------------------------------------------------------------------------
\* Claims about the life of a client
\* ------------------------------------------------------------------------
\* C11: on a closed client every call other than close raises DbClosedError
\* and does not reach the database, close succeeds, and the client stays
\* closed.
C11_ClosedIsTerminal ==
    /\ (clast.wasClosed /\ clast.op \notin {"close", "open"}) =>
          clast.outcome = "DbClosedError" /\ ~clast.reached
    /\ (clast.wasClosed /\ clast.op = "close") => clast.outcome = "none"
    /\ (clast.wasClosed /\ clast.op # "open") => session.db = "ClosedObject"

\* C12: after a commit() or close() of an open client the schema read back
\* from the database serialises as the schema in memory does and nothing is
\* left to write; a client opened on the database of a closed one serialises
\* the schema that was serialised before the close.
C12_SchemaPersistedAtCommit ==
    /\ (clast.op \in {"commit", "close"} /\ ~clast.wasClosed) =>
          /\ clast.outcome = "none"
          /\ ~schema.modified
          /\ SchemaSerialise(ClientOpen(session, xdb).s) = SchemaSerialise(schema)
    /\ clast.op = "open" =>
          /\ clast.outcome = "none"
          /\ <<SchemaSerialise(schema)>> = clast.atclose

C12_Witness ==
    /\ clast.op = "open"
    /\ clast.outcome = "none"
    /\ DOMAIN schema.types = {"", "text", "title"}
    /\ "title" \in DOMAIN schema.routes
    /\ Cardinality(DOMAIN xdb.docs) = 1

\* ------------------------------------------------------------------------
\* Claims about the documents of the Redis client
\* ------------------------------------------------------------------------
\* The terms the schema's indexers yield for a stored document.
DocTerms(doc) ==
    UNION {{Indexer(schema, f, doc[f])[i] : i \in DOMAIN Indexer(schema, f, doc[f])} :
              f \in DOMAIN doc}

\* C13: on the Redis client a docid is in the posting set of a term only if
\* a document is stored under that id and contains the term; a delete of a
\* stored document lowers document_count by one and removes the id from the
\* ids enumerated; a search returns stored ids only.
C13_OnlyLiveDocuments ==
    /\ \A k \in DOMAIN rstore.sets :
          k[1] = "docs:" =>
              \A d \in rstore.sets[k] :
                  /\ d \in smembers(rstore, <<"docs">>)
                  /\ <<"data:", d>> \in DOMAIN rstore.strs
                  /\ Tail(k) \in DocTerms(rstore.strs[<<"data:", d>>])
    /\ (client = "redis" /\ dlast.op = "delete" /\ dlast.existed) =>
          /\ RedisView(rstore, dlast.docid).count = dlast.before[1].count - 1
          /\ dlast.docid \notin smembers(rstore, <<"docs">>)
    /\ (srch.op = "search" /\ srch.outcome = "none") =>
          srch.result \subseteq smembers(rstore, <<"docs">>)

\* ------------------------------------------------------------------------
\* Claims about building query trees
\* ------------------------------------------------------------------------
\* Every NOT node of the tree has exactly two children.
RECURSIVE NotNodesBinary(_)
NotNodesBinary(q) ==
    /\ q.op = NOT => Len(q.subqs) = 2
    /\ \A i \in DOMAIN q.subqs : NotNodesBinary(q.subqs[i])

\* The last call built a NOT node: QueryNot(...), the - operator, or compose
\* with NOT or ANDNOT over two queries or more.
BuiltNot ==
    /\ built.err = "none"
    /\ \/ built.how = "QueryNot"
       \/ built.how = "binary" /\ built.op = OpConst(NOT)
       \/ built.how = "compose" /\ ComposeClass(built.op) = NOT
          /\ Len(built.operands) >= 2

\* C14: a NOT node, however it is built, has exactly two children: the
\* first operand and, for more than two operands, one OR node over the other
\* operands in their order.
C14_NotNormalised ==
    /\ built.err = "none" => NotNodesBinary(built.q)
    /\ BuiltNot =>
          /\ built.q.op = NOT
          /\ Len(built.q.subqs) = 2
          /\ built.q.subqs[1] = built.operands[1]
          /\ built.q.subqs[2] = IF Len(built.operands) > 2
                                THEN QueryNode(OR, Tail(built.operands))
                                ELSE built.operands[2]

\* C15: compose(op, nodes) for a combination operator op returns a node
\* that a search accepts and that matches nothing for no nodes, nodes[0]
\* for one node, and the combination with operator op over exactly those
\* nodes in order for two or more.
C15_ComposeArity ==
    (built.how = "compose"
     /\ (ComposeClass(built.op) # NoOp \/ built.op = OpConst(AND_MAYBE))) =>
        /\ built.err = "none"
        /\ Len(built.operands) = 0 =>
              built.q.op = NONE /\ XapianCompile(built.q) = "none"
        /\ Len(built.operands) = 1 => built.q = built.operands[1]
        /\ Len(built.operands) >= 2 =>
              /\ built.q.op = IF built.op.isname THEN ComposeClass(built.op)
                              ELSE built.op.code
              /\ built.q.subqs = built.operands

\* One guess(field, value) step on a modifiable schema leaves types, routes and
\* the modified flag as they were when the field is already bound or routed;
\* otherwise the first guesser of the chain claims the field and its binding
\* and its route are installed (schema.Schema, which has no routes, binds
\* the field to what make_guess returns); with no guesser in the chain the
\* call raises SchemaError and installs nothing.
C16_GuessStep(f) ==
    IF f \in DOMAIN schema.types \/
       (schema.cls # "Schema" /\ f \in DOMAIN schema.routes)
    THEN /\ sres'.outcome = "none"
         /\ SchemaState(schema') = SchemaState(schema)
    ELSE IF schema.cls = "Schema"
    THEN /\ sres'.outcome = "none"
         /\ schema'.types = Put(schema.types, f, PyTuple(TEXT, EmptyMap))
         /\ schema'.modified
    ELSE IF schema.guessers = <<>>
    THEN /\ sres'.outcome = "SchemaError"
         /\ SchemaState(schema') = SchemaState(schema)
    ELSE /\ sres'.outcome = "none"
         /\ f \in DOMAIN schema'.types
         /\ schema'.types[f].type = "TEXT"
         /\ f \in DOMAIN schema'.routes
         /\ schema'.routes[f].items =
                <<RouteItem("", EmptyMap), RouteItem(f, EmptyMap)>>
         /\ \A g \in DOMAIN schema.types : schema'.types[g] = schema.types[g]
         /\ \A g \in DOMAIN schema.routes : schema'.routes[g] = schema.routes[g]
         /\ schema'.modified

C17_Refused ==
    /\ sres'.outcome = "DbReadOnlyError"
    /\ SchemaState(schema') = SchemaState(schema)
    /\ ~schema'.modifiable

RECURSIVE OpsOf(_)
OpsOf(q) ==
    {q.op} \cup UNION {OpsOf(q.subqs[i]) : i \in DOMAIN q.subqs}

\* FeatureNotAvailableError and its subclass UnknownQueryTypeError.
FeatureErrors == {"FeatureNotAvailableError", "UnknownQueryTypeError"}

\* C18: a search of the Redis client over a tree that holds an operator the
\* backend knows but does not support (XOR, MULTWEIGHT, ALL, NONE, SIMILAR)
\* raises a feature-not-available error before any command is sent, and
\* returns no result.
C18_UnsupportedFailsFast ==
    (srch.op = "search"
     /\ OpsOf(srch.query) \cap {XOR, MULTWEIGHT, ALL, NONE, SIMILAR} # {})
    => /\ srch.outcome \in FeatureErrors
       /\ srch.pipe = <<>>
       /\ srch.executes = 0
       /\ srch.result = {}

\* A tree with a Terms leaf that has no terms.
RECURSIVE HasEmptyTerms(_)
HasEmptyTerms(q) ==
    \/ q.op = TERMS /\ q.terms = <<>>
    \/ \E i \in DOMAIN q.subqs : HasEmptyTerms(q.subqs[i])

\* C19: a search of the Redis client over a tree with an empty Terms leaf
\* raises the unimplemented-feature error, submits no command and yields no
\* result.
C19_EmptyTermsIsError ==
    (srch.op = "search" /\ HasEmptyTerms(srch.query))
    => /\ srch.outcome = "UnimplementedError"
       /\ srch.pipe = <<>>
       /\ srch.executes = 0
       /\ srch.result = {}

\* C20: a search of the Redis client over the empty query that compose
\* returns for no nodes returns an empty result, raises nothing and
\* executes no pipeline.
C20_EmptyQueryShortCircuits ==
    (srch.op = "search" /\ \E op \in {OR, AND} : srch.query = compose(op, <<>>))
    => /\ srch.outcome = "none"
       /\ srch.result = {}
       /\ srch.pipe = <<>>
       /\ srch.executes = 0

\* ------------------------------------------------------------------------
\* Claims about document ids
\* ------------------------------------------------------------------------
\* C21: an update() of the Xapian client without a docid, and an add() of
\* the Redis client, end and store the document under an id that no stored
\* document had before the call, so that document_count grows by one.
C21_DocidAllocation ==
    /\ (client = "xapian" /\ dlast.op = "update" /\ dlast.docid = "None") =>
          /\ dlast.outcome = "none"
          /\ ~dlast.existed
          /\ XapianView(xdb, dlast.docid).count = dlast.before[1].count + 1
    /\ (client = "redis" /\ dlast.op = "add") =>
          /\ dlast.outcome = "none"
          /\ ~dlast.existed
          /\ RedisView(rstore, dlast.docid).count = dlast.before[1].count + 1

\* ------------------------------------------------------------------------
\* Reading a document while another session writes (get_document)
\* ------------------------------------------------------------------------
\* The reader is a client of its own on the database the writer commits to.
\* Its snapshot is the revision it opened; once the writer has committed
\* after that, a read through the snapshot may still succeed or may raise
\* DatabaseModifiedError.
Stale(r) == r.behind > 0

\* A reopen that keeps the old revision.
ReopenKeepsRevision(r) == [r EXCEPT !.retries = @ + 1, !.pc = "postlist"]
\* The except clause of get_document: self.db.reopen(), then the loop again.
DbReopen(r) ==
    [r EXCEPT !.snap = r.disk, !.behind = 0, !.retries = @ + 1,
              !.pc = "postlist"]

\* The documents of the snapshot that the id term indexes.
Holders(r) ==
    {n \in DOMAIN r.snap : get_docid_term(r.docid) \in r.snap[n].terms}

\* get_document(docid) is called: docidterm is computed and the loop entered.
GetDocument(docid) ==
    /\ reader.pc = "idle"
    /\ reader.calls < MaxReads
    /\ reader' = [reader EXCEPT !.pc = "postlist", !.docid = docid,
                                !.plitem = <<>>, !.outcome = "pending",
                                !.data = <<>>, !.retries = 0,
                                !.calls = @ + 1]
    /\ UNCHANGED <<schemaVars, queryVars, searchVars, backendVars, facadeVars,
                   built, lazy, sess, steps>>

\* postlist = self.db.postlist(docidterm); plitem = postlist.next(): the
\* first document of the term, KeyError when there is none, or
\* DatabaseModifiedError on a stale snapshot.
ReadPostlist ==
    /\ reader.pc = "postlist"
    /\ \/ /\ Stale(reader)
          /\ reader' = [reader EXCEPT !.pc = "reopen"]
       \/ /\ Holders(reader) = {}
          /\ reader' = [reader EXCEPT !.pc = "idle", !.outcome = "KeyError"]
       \/ /\ Holders(reader) # {}
          /\ reader' = [reader EXCEPT
                 !.pc = "get_document",
                 !.plitem = <<CHOOSE n \in Holders(reader) :
                                 \A m \in Holders(reader) : n <= m>>]
    /\ UNCHANGED <<schemaVars, queryVars, searchVars, backendVars, facadeVars,
                   built, lazy, sess, steps>>

\* return XapianDocument(self.db.get_document(plitem.docid), self)
ReadDocument ==
    /\ reader.pc = "get_document"
    /\ \/ /\ Stale(reader)
          /\ reader' = [reader EXCEPT !.pc = "reopen"]
       \/ /\ reader' = [reader EXCEPT
                 !.pc = "idle", !.outcome = "document",
                 !.data = <<reader.snap[reader.plitem[1]].data>>]
    /\ UNCHANGED <<schemaVars, queryVars, searchVars, backendVars, facadeVars,
                   built, lazy, sess, steps>>

\* except xapian.DatabaseModifiedError: self.db.reopen()
Reopen ==
    /\ reader.pc = "reopen"
    /\ reader' = DbReopen(reader)
    /\ UNCHANGED <<schemaVars, queryVars, searchVars, backendVars, facadeVars,
                   built, lazy, sess, steps>>

\* The writer session: update and delete change its database, commit makes
\* the change the revision that a reopen sees.
WriterUpdate(doc, docid) ==
    /\ steps < MaxWrites
    /\ \E r \in {XapianUpdate(schema, xdb, doc, docid, FALSE)} :
           /\ schema' = r.s
           /\ xdb' = r.db
           /\ steps' = steps + 1
           /\ UNCHANGED <<client, rstore, dlast, srch, nonBackendVars>>

WriterDelete(docid) ==
    /\ steps < MaxWrites
    /\ xdb' = XapianDelete(xdb, docid, FALSE).db
    /\ steps' = steps + 1
    /\ UNCHANGED <<client, schema, rstore, dlast, srch, nonBackendVars>>

WriterCommit ==
    /\ steps < MaxWrites
    /\ \E r \in {XapianCommit(schema, xdb)} :
           /\ schema' = r.s
           /\ xdb' = r.db
           /\ reader' = [reader EXCEPT !.disk = r.db.docs, !.behind = @ + 1]
           /\ steps' = steps + 1
           /\ UNCHANGED <<wire, wireSrc, bound, sres, queryVars, searchVars,
                          client, rstore, dlast, srch, facadeVars, built, lazy,
                          sess>>

ReadDocs == {[text |-> <<"x">>], [text |-> <<"y">>]}

InitRead ==
    /\ client = "xapian"
    /\ schema = NewSchema("XapianSchema")
    /\ rstore = EmptyStore
    /\ xdb = EmptyDb
    /\ dlast = NoDLast
    /\ srch = NoSrch
    /\ IdleSchema
    /\ IdleBuilt
    /\ IdleQuery
    /\ IdleSearch
    /\ IdleFacade
    /\ IdleOther
    /\ steps = 0

ReaderStep == ReadPostlist \/ ReadDocument \/ Reopen

NextRead ==
    \/ \E i \in {"1", "2"} : GetDocument(i)
    \/ ReadPostlist
    \/ ReadDocument
    \/ Reopen
    \/ \E d \in ReadDocs, i \in {"1", "2"} : WriterUpdate(d, i)
    \/ WriterDelete("1")
    \/ WriterCommit

\* The loop of get_document runs on once entered: the reader is a thread
\* of its own that nothing suspends.
SpecRead == InitRead /\ [][NextRead]_vars /\ WF_vars(ReaderStep)

\* What a finished get_document gave: the document the id term indexes in
\* the revision read, or KeyError when that revision has none.
ReadResult ==
    reader.pc = "idle" =>
        /\ reader.outcome \in {"none", "document", "KeyError"}
        /\ reader.outcome = "document" =>
              /\ Holders(reader) # {}
              /\ \E n \in Holders(reader) : reader.data = <<reader.snap[n].data>>
        /\ reader.outcome = "KeyError" => Holders(reader) = {}

\* C22: get_document never surfaces DatabaseModifiedError: on each one it
\* reopens the database and reads again, and it ends, once the writer has
\* stopped, with the document or with KeyError for an id that is missing.
C22_ReadRetries ==
    /\ [](reader.outcome # "DatabaseModifiedError" /\ ReadResult)
    /\ [][(reader.pc = "reopen" /\ reader'.pc # "reopen") =>
            /\ reader'.pc = "postlist"
            /\ reader'.snap = reader.disk]_vars
    /\ (reader.pc # "idle") ~> (reader.pc = "idle")

C22_Witness ==
    /\ reader.pc = "idle"
    /\ reader.outcome = "document"
    /\ reader.retries >= 2

\* C23: after full_reset() the Redis client is as a new client on an empty
\* store: no key remains, the next id is the first, the schema of the
\* client has no bindings, and so whenever documents are stored the schema
\* that indexed them is stored too.
C23_FullResetIsFresh ==
    /\ (client = "redis" /\ dlast.op = "full_reset") =>
          /\ rstore = EmptyStore
          /\ schema = NewSchema("Schema")
    /\ (client = "redis" /\ smembers(rstore, <<"docs">>) # {}) =>
          <<"schema">> \in DOMAIN rstore.strs

\* ------------------------------------------------------------------------
\* LazyJsonObject (multisearch/utils.py, multisearch/utils/lazyjson.py)
\* ------------------------------------------------------------------------
\* A JSON text: the empty string, or an object with its items.  None is
\* <<>>, a value v is <<v>>.
EmptyText == [form |-> "empty", items |-> EmptyMap]

\* json.dumps(data, separators=(',', ':'))
JsonDumps(data) == [form |-> "object", items |-> data]

\* json.loads(text): the items of an object, <<>> for the ValueError that
\* the empty string gives.
JsonLoads(text) == IF text.form = "object" THEN <<text.items>> ELSE <<>>

\* LazyJsonObject.__init__(json, data): lazyjson.py takes the empty string
\* for no JSON, utils.py only None.
LazyInit(cls, json, data) ==
    [cls |-> cls, json |-> json,
     data |-> IF /\ data = <<>>
                 /\ \/ json = <<>>
                    \/ cls = "lazyjson" /\ json = <<EmptyText>>
              THEN <<EmptyMap>> ELSE data,
     op |-> "init", outcome |-> "none"]

\* _load: [o, err]
LazyLoad(o) ==
    IF o.data # <<>> THEN [o |-> o, err |-> "none"]
    ELSE IF JsonLoads(o.json[1]) = <<>> THEN [o |-> o, err |-> "ValueError"]
    ELSE [o |-> [o EXCEPT !.data = JsonLoads(o.json[1])], err |-> "none"]

\* _dump
LazyDump(o) ==
    IF o.json = <<>> THEN [o EXCEPT !.json = <<JsonDumps(o.data[1])>>] ELSE o

\* __getitem__(key): [o, err]
LazyGetItem(l, key) ==
    IF l.err # "none" THEN l
    ELSE IF key \notin DOMAIN l.o.data[1] THEN [o |-> l.o, err |-> "KeyError"]
    ELSE l

\* __setitem__(key, value): [o, err]
LazySetItem(l, key, value) ==
    IF l.err # "none" THEN l
    ELSE [o |-> [l.o EXCEPT !.json = <<>>,
                            !.data = <<Put(l.o.data[1], key, value)>>],
          err |-> "none"]

\* __delitem__(key): [o, err]
LazyDelItem(l, key) ==
    IF l.err # "none" THEN l
    ELSE IF key \notin DOMAIN l.o.data[1]
    THEN [o |-> [l.o EXCEPT !.json = <<>>], err |-> "KeyError"]
    ELSE [o |-> [l.o EXCEPT !.json = <<>>,
                            !.data = <<Without(l.o.data[1], key)>>],
          err |-> "none"]

LazyKeys == {"hi", "hello"}
LazyValues == {2, 3}
LazyMaps == {EmptyMap, [k \in {"hi"} |-> 2], [k \in LazyKeys |-> 3]}

LazyCalled(r, op) ==
    /\ steps < MaxLazyCalls
    /\ lazy' = [r.o EXCEPT !.op = op, !.outcome = r.err]
    /\ steps' = steps + 1
    /\ UNCHANGED <<schemaVars, queryVars, searchVars, backendVars, facadeVars,
                   built, reader, sess>>

\* obj[key]
GetItem(key) == LazyCalled(LazyGetItem(LazyLoad(lazy), key), "getitem")

\* obj[key] = value
SetItem(key, value) ==
    LazyCalled(LazySetItem(LazyLoad(lazy), key, value), "setitem")

\* del obj[key]
DelItem(key) == LazyCalled(LazyDelItem(LazyLoad(lazy), key), "delitem")

\* obj.json
ReadJson == LazyCalled([o |-> LazyDump(lazy), err |-> "none"], "json")

\* obj.items()
Items == LazyCalled(LazyLoad(lazy), "items")

InitLazy ==
    /\ lazy \in {LazyInit(cls, j, d) :
                    cls \in {"utils", "lazyjson"},
                    j \in {<<>>, <<EmptyText>>}
                         \cup {<<JsonDumps(m)>> : m \in LazyMaps},
                    d \in {<<>>}}
               \cup {LazyInit(cls, <<>>, <<m>>) :
                        cls \in {"utils", "lazyjson"}, m \in LazyMaps}
    /\ reader = NoReader
    /\ sess = NoSess
    /\ schema = NewSchema("Schema")
    /\ IdleSchema
    /\ IdleBuilt
    /\ IdleQuery
    /\ IdleSearch
    /\ IdleBackend
    /\ IdleFacade
    /\ steps = 0

NextLazy ==
    \/ \E k \in LazyKeys : GetItem(k)
    \/ \E k \in LazyKeys, v \in LazyValues : SetItem(k, v)
    \/ \E k \in LazyKeys : DelItem(k)
    \/ ReadJson
    \/ Items

SpecLazy == InitLazy /\ [][NextLazy]_vars

\* C24: in every state the json property of a LazyJsonObject, built from
\* no arguments, from a JSON text (the empty string included) or from
\* data, is a text that decodes to exactly the items a read gives.
C24_JsonMatchesItems ==
    /\ LazyLoad(lazy).err = "none"
    /\ JsonLoads(LazyDump(lazy).json[1]) = LazyLoad(lazy).o.data

\* ------------------------------------------------------------------------
\* Claims about the compiled batch of the Redis client
\* ------------------------------------------------------------------------
\* A tree of non-empty Terms leaves and OR, AND and NOT combinations.
Compilable(q) ==
    /\ OpsOf(q) \subseteq {OR, AND, NOT, TERMS}
    /\ ~HasEmptyTerms(q)

\* The operators of the commands of a tree in post-order: the children of
\* a combination from left to right, then the combination; a leaf gives a
\* score (NoOp) per term and, for several terms, its default_op.
RECURSIVE PostOrder(_, _)
PostOrder(q, i) ==
    IF q.op = TERMS
    THEN [k \in 1..Len(q.terms) |-> NoOp] \o
         (IF Len(q.terms) > 1 THEN <<q.default_op>> ELSE <<>>)
    ELSE IF i > Len(q.subqs) THEN <<q.op>>
    ELSE PostOrder(q.subqs[i], 1) \o PostOrder(q, i + 1)

\* C25: the walk of a search ends for every tree, however deep its
\* combinations nest, and emits the nodes in post-order, each once.
C25_WalkPostOrder ==
    (srch.op = "search" /\ Compilable(srch.query)) =>
        /\ srch.outcome = "none"
        /\ [i \in DOMAIN srch.cmds |->
               IF srch.cmds[i].score THEN NoOp ELSE srch.cmds[i].op]
           = PostOrder(srch.query, 1)

\* C26: two commands of one compiled tree write the same cache key only if
\* they have the same operator and the same operand keys.
C26_KeysSeparateSubqueries ==
    srch.op = "search" =>
        \A i, j \in DOMAIN srch.cmds :
            srch.cmds[i].dest = srch.cmds[j].dest =>
                /\ srch.cmds[i].score = srch.cmds[j].score
                /\ srch.cmds[i].op = srch.cmds[j].op
                /\ srch.cmds[i].inputs = srch.cmds[j].inputs

\* The docid set of a tree by its meaning: a leaf is the intersection or
\* the union of the posting sets of its terms, AND the intersection of the
\* children, OR their union, NOT the first child less the others.
RECURSIVE RefEval(_, _)
RefEval(store, q) ==
    LET posting(term) == smembers(store, <<"docs:">> \o term)
        child(i) == RefEval(store, q.subqs[i])
    IN  IF q.op = TERMS
        THEN IF Len(q.terms) > 1 /\ q.default_op = OR
             THEN UNION {posting(q.terms[i]) : i \in DOMAIN q.terms}
             ELSE {d \in posting(q.terms[1]) :
                      \A i \in DOMAIN q.terms : d \in posting(q.terms[i])}
        ELSE IF q.op = OR THEN UNION {child(i) : i \in DOMAIN q.subqs}
        ELSE IF q.op = AND
        THEN {d \in child(1) : \A i \in DOMAIN q.subqs : d \in child(i)}
        ELSE child(1) \ UNION {child(i) : i \in DOMAIN q.subqs \ {1}}

\* C27: for every tree of non-empty Terms leaves and AND, OR and NOT
\* combinations and every store, the search returns the docid set of the
\* reference evaluation.
C27_SetSemantics ==
    (srch.op = "search" /\ Compilable(srch.query)) =>
        /\ srch.outcome = "none"
        /\ srch.result = RefEval(rstore, srch.query)

\* ------------------------------------------------------------------------
\* The schema of an open client, changed by its owner and committed
\* ------------------------------------------------------------------------
\* client.schema.set_route('title', dest_fields)
OwnerSetRoute(dest_fields) ==
    /\ steps < MaxFacadeCalls
    /\ session.db = "Database"
    /\ \E r \in {SchemaSetRoute(schema, "title", dest_fields)} :
           /\ schema' = r.s
           /\ clast' = CLast("set_route", r.err, clast.atclose)
    /\ steps' = steps + 1
    /\ UNCHANGED <<session, xdb, nonFacadeVars>>

\* client.schema.set(fieldname, type, params)
OwnerSet(fieldname, type, params) ==
    /\ steps < MaxFacadeCalls
    /\ session.db = "Database"
    /\ \E r \in {SchemaSet(schema, fieldname, type, params)} :
           /\ schema' = r.s
           /\ clast' = CLast("set", r.err, clast.atclose)
    /\ steps' = steps + 1
    /\ UNCHANGED <<session, xdb, nonFacadeVars>>

NextOwner ==
    \/ \E d \in RouteChoices : OwnerSetRoute(d)
    \/ \E f \in FieldNames, p \in ParamChoices : OwnerSet(f, "TEXT", p)
    \/ \E d \in FacadeDocs : ClientUpdate(d, "1", FALSE)
    \/ ClientCommit
    \/ Close
    \/ Open

SpecOwner == InitFacade /\ [][NextOwner]_vars

\* C28: whenever the schema of an open client is not marked modified, the
\* schema stored in the database is the schema in memory.
C28_ModifiedNeverHides ==
    (session.db = "Database" /\ ~schema.modified) =>
        SchemaSerialise(ClientOpen(session, xdb).s) = SchemaSerialise(schema)

\* ------------------------------------------------------------------------
\* Two sessions updating one document of the Redis store
\* ------------------------------------------------------------------------
\* Each session is a RedisSearch of its own (its own schema) on one server.
\* update() sends, in order: WATCH terms:<id>, WATCH data:<id>, SMEMBERS
\* terms:<id>, the transaction of delete(), the transaction of _store_doc().
\* The server runs each of them atomically and interleaves the sessions.
Sessions == {"A", "B"}

Other(p) == IF p = "A" THEN "B" ELSE "A"

SharedDocid == "1"

\* The keys delete() watches, as the server holds them.
Watched(store) ==
    <<smembers(store, <<"terms:", SharedDocid>>),
      RedisView(store, SharedDocid).data>>

\* What a transaction that took the server from store to after does to the
\* other session q: a session between its WATCH and its EXEC sees a change
\* of a watched key.
Touch(q, store, after) ==
    [sess[q] EXCEPT !.dirty =
        sess[q].dirty \/ (sess[q].pc \in {"get_terms", "delete"}
                            /\ Watched(store) # Watched(after))]

\* update(docid, doc) up to the two WATCH commands of delete()
UpdateCall(p, doc) ==
    /\ client = "redis"
    /\ sess[p].pc = "idle" /\ sess[p].outcome = "none"
    /\ sess' = [sess EXCEPT ![p] = [@ EXCEPT !.pc = "get_terms", !.doc = doc,
                                              !.dirty = FALSE]]
    /\ UNCHANGED <<schemaVars, queryVars, searchVars, backendVars, facadeVars,
                   built, reader, lazy, steps>>

\* remove_terms(): get_terms() reads the forward index outside the
\* transaction and the srem commands are queued from what it read.
GetTerms(p) ==
    /\ sess[p].pc = "get_terms"
    /\ sess' = [sess EXCEPT ![p] = [@ EXCEPT !.pc = "delete",
                   !.terms = smembers(rstore, <<"terms:", SharedDocid>>)]]
    /\ UNCHANGED <<schemaVars, queryVars, searchVars, backendVars, facadeVars,
                   built, reader, lazy, steps>>

\* wrapper.execute() of delete().  WATCH went out on the client and the
\* transaction on the pipeline: when a watched key changed, the server
\* either runs the transaction (the WATCH was on another connection) or
\* refuses it (the same connection) and update() ends with the error.
DeleteExecute(p) ==
    /\ sess[p].pc = "delete"
    /\ \E refused \in {FALSE, sess[p].dirty} :
        \E after \in {IF refused THEN rstore
                      ELSE ExecPipe(rstore,
                                    DeletePipeline(SharedDocid, SeqOf(sess[p].terms)),
                                    <<>>).store} :
            /\ rstore' = after
            /\ sess' = [q \in Sessions |->
                           IF q = p
                           THEN [sess[p] EXCEPT
                                    !.pc = IF refused THEN "idle" ELSE "store",
                                    !.outcome = IF refused THEN "WatchError"
                                                ELSE "none"]
                           ELSE Touch(q, rstore, after)]
    /\ UNCHANGED <<schemaVars, queryVars, searchVars, client, xdb, dlast, srch,
                   facadeVars, built, reader, lazy, steps>>

\* _store_doc(doc, wrapper) of update(): the guesses, then one transaction.
StoreDocument(p) ==
    /\ sess[p].pc = "store"
    /\ \E r \in {StoreDoc(sess[p].schema, rstore, SharedDocid, sess[p].doc)} :
            /\ rstore' = r.store
            /\ sess' = [q \in Sessions |->
                           IF q = p
                           THEN [sess[p] EXCEPT !.pc = "idle", !.schema = r.s,
                                                !.outcome = "updated"]
                           ELSE Touch(q, rstore, r.store)]
    /\ UNCHANGED <<schemaVars, queryVars, searchVars, client, xdb, dlast, srch,
                   facadeVars, built, reader, lazy, steps>>

\* The store before the two updates: empty, or holding a document under
\* the shared id that an earlier session stored.
InitSessions ==
    /\ client = "redis"
    /\ rstore \in {EmptyStore} \cup
                  {RedisUpdate(NewSchema("Schema"), EmptyStore, SharedDocid, d).store :
                      d \in Docs}
    /\ xdb = EmptyDb
    /\ dlast = NoDLast
    /\ srch = NoSrch
    /\ schema = NewSchema("Schema")
    /\ IdleSchema
    /\ IdleBuilt
    /\ IdleQuery
    /\ IdleSearch
    /\ IdleFacade
    /\ IdleOther
    /\ steps = 0

NextSessions ==
    \/ \E p \in Sessions, d \in Docs : UpdateCall(p, d)
    \/ \E p \in Sessions : GetTerms(p)
    \/ \E p \in Sessions : DeleteExecute(p)
    \/ \E p \in Sessions : StoreDocument(p)

SpecSessions == InitSessions /\ [][NextSessions]_vars

\* What update(SharedDocid, doc) alone leaves under the shared id.
AloneView(doc) ==
    RedisView(RedisUpdate(NewSchema("Schema"), EmptyStore, SharedDocid, doc).store,
              SharedDocid)

\* C29: once two sessions have both run update() on one docid, the data
\* stored under the id, its forward index and the posting sets that hold it
\* are those one of the two updates alone leaves.
C29_UpdatesDoNotMix ==
    (\A p \in Sessions : sess[p].pc = "idle" /\ sess[p].outcome # "none") =>
        \E p \in Sessions :
            /\ sess[p].outcome = "updated"
            /\ LET v == RedisView(rstore, SharedDocid)
                   a == AloneView(sess[p].doc)
               IN  /\ v.data = a.data
                   /\ v.terms = a.terms
                   /\ v.postings = a.postings

\* ------------------------------------------------------------------------
\* The operators that build a query from queries
\* ------------------------------------------------------------------------
\* QueryMultWeight.__init__: subq and mult are kept and Query has no
\* __init__ of its own, so conn stays the class attribute None.
QueryMultWeight(subq, mult) == [op |-> MULTWEIGHT, nsubqs |-> 1, conn |-> "None"]

\* The connection all the operands share, "None" when one of them is
\* unconnected or two of them differ.
CommonConn(ns, subqs) ==
    IF Cardinality({ns[subqs[i]].conn : i \in DOMAIN subqs}) = 1
    THEN ns[subqs[1]].conn ELSE "None"

Composed(how, r, subqs) ==
    /\ nodes' = r.ns
    /\ firstconn' = FirstConn(nodes')
    /\ qres' = [NoQRes EXCEPT !.op = how, !.outcome = r.err,
                   !.before = CommonConn(nodes, subqs),
                   !.kidconns = {nodes[subqs[i]].conn : i \in DOMAIN subqs} \ {"None"}]
    /\ steps' = steps + 1
    /\ UNCHANGED nonQueryVars

\* self & other, self | other, self ^ other, self - other,
\* self.and_maybe(other)
Operator(op, self, other) ==
    /\ steps < MaxNewQueries
    /\ Composed("operator", NewQuery(nodes, op, <<self, other>>), <<self, other>>)

\* Query.compose(op, queries) for two queries or more
ComposeQueries(op, queries) ==
    /\ steps < MaxNewQueries
    /\ Composed("compose",
                IF ComposeClass(op) = NoOp THEN [ns |-> nodes, err |-> "KeyError"]
                ELSE NewQuery(nodes, ComposeClass(op), queries),
                queries)

\* self * mult and mult * self
Multiply(self, mult) ==
    /\ steps < MaxNewQueries
    /\ Composed("multiply",
                [ns |-> Append(nodes, QueryMultWeight(self, mult)), err |-> "none"],
                <<self>>)

\* self / rhs: self * (1.0 / rhs)
Divide(self, rhs) ==
    /\ steps < MaxNewQueries
    /\ Composed("divide",
                IF rhs = 0 THEN [ns |-> nodes, err |-> "ZeroDivisionError"]
                ELSE [ns |-> Append(nodes, QueryMultWeight(self, 1)), err |-> "none"],
                <<self>>)

\* self.filter(other): QueryAnd((self, other * 0))
Filter(self, other) ==
    /\ steps < MaxNewQueries
    /\ Composed("filter",
                NewQuery(Append(nodes, QueryMultWeight(other, 0)), AND,
                         <<self, Len(nodes) + 1>>),
                <<self, other>>)

NextOperators ==
    \/ \E op \in {AND, OR, XOR, NOT, AND_MAYBE} :
          \E a \in DOMAIN nodes, b \in DOMAIN nodes : Operator(op, a, b)
    \/ \E op \in ComposeOps :
          \E k \in SubqChoices(ComposeClass(op), Len(nodes)) : ComposeQueries(op, k)
    \/ \E n \in DOMAIN nodes, mult \in {0, 2} : Multiply(n, mult)
    \/ \E n \in DOMAIN nodes, rhs \in {0, 2} : Divide(n, rhs)
    \/ \E a \in DOMAIN nodes, b \in DOMAIN nodes : Filter(a, b)

SpecOperators == InitQuery /\ [][NextOperators]_vars

\* C30: a query built by &, |, ^, -, and_maybe, filter, compose, * or /
\* from queries that are all connected to one backend is connected to that
\* backend, and reading the results of search() on it runs the backend
\* search instead of raising the 'not connected' error.
C30_CompositionKeepsBinding ==
    (/\ qres.op \in {"operator", "compose", "multiply", "divide", "filter"}
     /\ qres.outcome = "none"
     /\ qres.before # "None") =>
        /\ nodes[Len(nodes)].conn = qres.before
        /\ SearchRead(NewSearch("multisearch", nodes[Len(nodes)].conn, 0, <<>>),
                      "ok").invoked
====
